---- MODULE Spec2Model ----
(***************************************************************************)
(* AIR-assist: the WebSocket session (WebSocketService), the application   *)
(* context that sends and queues messages (AppContext), the audio service  *)
(* (AudioService) and the home screen that coordinates turn taking         *)
(* (HomeScreen).                                                           *)
(*                                                                         *)
(* Time is virtual: every setTimeout and setInterval is a countdown and a  *)
(* clock action advances the countdowns by one unit; it is disabled while  *)
(* a countdown is at 0, so a timer callback runs at its expiry.  The       *)
(* timers of WebSocketService count in units of the reconnect interval     *)
(* (5000 ms, which divides the ping period and the keepalive limit); the   *)
(* timers of the audio service and of the screens count in units of        *)
(* 1000 ms on a clock of their own.  The conversation log (messages) is    *)
(* kept where logged holds; the specifications whose properties do not     *)
(* observe the log start with logged false and elide it.                   *)
(***************************************************************************)
EXTENDS Integers, Sequences, FiniteSets, TLC

VARIABLES
    ws,                 \* the static fields of WebSocketService, and heard: a
                        \* message has arrived since the network clock last advanced
    wsConnected,        \* AppContext state, set by onConnect / onDisconnect
    isProcessingAudio,  \* AppContext state
    isSpeaking,         \* AppContext state
    speakTimers,        \* pending setTimeout(() => setIsSpeaking(false), 1000)
    pendingMessages,    \* AppContext state: the offline queue
    mounted,            \* the AppProvider effect is mounted (init done, no cleanup since)
    nextMsg,            \* number of the next user message
    outcome,            \* per message: what sendAudioToServer / sendTextToServer did with it
    wire,               \* payloads handed to socket.send, in order
    dequeued,           \* entries removed from pendingMessages, in order
    lastOp,             \* the operation that ran last
    forceCloses,        \* keepalive force-closes since the session last opened
    au,                 \* the static fields of AudioService
    rec,                \* the recorder (AudioRecord) and its data listener
    calls,              \* startRecording / stopRecording calls suspended at an await
    playCalls,          \* the playAudio calls: where each is, how often it settled
    sounds,             \* the Sound objects, one per playAudio call
    isRecording,        \* HomeScreen state
    isListening,        \* HomeScreen state
    autoListen,         \* settings.autoListen
    listenTimer,        \* the timeout of the auto-listen effect and its closure
    busyStart,          \* HomeScreen called startRecording while not Idle
    bt,                 \* BluetoothProvider: its state, its calls suspended at an
                        \* await, its scan timers, the radio and the stored history
    messages,           \* AppContext state: the conversation log
    now,                \* Date.now(), in ms
    logged,             \* the conversation log is observed (it is elided otherwise)
    received,           \* the kind of the latest inbound payload, while logged
    audioModule         \* the fields of the native AudioModule, its recording file
                        \* and its AudioTrack

netVars == <<ws, wsConnected, isProcessingAudio, isSpeaking, speakTimers, mounted>>
msgVars == <<pendingMessages, nextMsg, outcome, wire, dequeued>>
svcVars == <<au, rec, calls>>
playVars == <<playCalls, sounds>>
hsVars == <<isRecording, isListening, autoListen, busyStart>>
deviceVars == <<au, rec, calls, playCalls, sounds,
                isRecording, isListening, autoListen, busyStart>>
vars == <<ws, wsConnected, isProcessingAudio, isSpeaking, speakTimers,
          pendingMessages, mounted, nextMsg, outcome, wire, dequeued,
          lastOp, forceCloses, au, rec, calls, playCalls, sounds,
          isRecording, isListening, autoListen, listenTimer, busyStart, bt,
          messages, now, logged, received, audioModule>>
appVars == <<ws, wsConnected, isProcessingAudio, isSpeaking, speakTimers,
             pendingMessages, mounted, nextMsg, outcome, wire, dequeued,
             lastOp, forceCloses, au, rec, calls, playCalls, sounds,
             isRecording, isListening, autoListen, listenTimer, busyStart,
             messages, now, logged, received, audioModule>>
logVars == <<messages, now, logged, received>>
appVarsButModule ==
    <<ws, wsConnected, isProcessingAudio, isSpeaking, speakTimers,
      pendingMessages, mounted, nextMsg, outcome, wire, dequeued,
      lastOp, forceCloses, au, rec, calls, playCalls, sounds,
      isRecording, isListening, autoListen, listenTimer, busyStart,
      messages, now, logged, received>>

----------------------------------------------------------------------------
(* Bounds and program constants *)

MaxMsgs == 2            \* user messages created in one behaviour
MaxCalls == 2           \* recording calls suspended at the same time
MaxPlays == 3           \* playAudio calls in one behaviour
MaxClips == 1           \* clips recorded from the home screen in one behaviour

WEBSOCKET_RECONNECT_INTERVAL == 5000    \* TIME.WEBSOCKET_RECONNECT_INTERVAL, ms
PingIntervalMs == 30000                 \* setInterval(..., 30000)
UnresponsiveMs == 60000                 \* now - lastPingTime > 60000
SpeakingMs == 1000                      \* setTimeout(() => setIsSpeaking(false), 1000)
AUTO_LISTEN_DELAY == 1000               \* the delay of the auto-listen effect, ms
SILENCE_DETECTION_TIMEOUT == 2000       \* the silence timer of startSilenceDetection, ms

\* the network clock counts reconnect intervals, the other clock 1000 ms
ReconnectDelay == WEBSOCKET_RECONNECT_INTERVAL \div WEBSOCKET_RECONNECT_INTERVAL
PingPeriod == PingIntervalMs \div WEBSOCKET_RECONNECT_INTERVAL
DeadAfter == UnresponsiveMs \div WEBSOCKET_RECONNECT_INTERVAL
SpeakDelay == SpeakingMs \div AUTO_LISTEN_DELAY
ListenDelay == AUTO_LISTEN_DELAY \div AUTO_LISTEN_DELAY
SilenceDelay == SILENCE_DETECTION_TIMEOUT \div AUTO_LISTEN_DELAY
QuietCap == SilenceDelay + 1            \* quiet times beyond this are not told apart

NoTimer == -1           \* a timer field that is null
AgeCap == DeadAfter + PingPeriod + 1   \* ages beyond this are not told apart

Urls == {"ws://a", "invalid"}
NoUrl == "null"
NoSocket == [readyState |-> "NULL", url |-> NoUrl]

Min(a, b) == IF a < b THEN a ELSE b

----------------------------------------------------------------------------
(* WebSocketService: the methods as functions of the static fields s *)

\* new WebSocket(url) raises on a url it cannot parse
ConstructorThrows(u) == u = "invalid"

\* disconnect: the flags and both timers are cleared, the socket's handlers are
\* removed and the field is nulled; close() is called on an OPEN socket only, so
\* a socket dropped while CONNECTING goes on opening (orphan; kept track of
\* only where the sockets themselves are studied)
disconnect_keepsReconnectTimer(s) ==
    [s EXCEPT !.connected = FALSE,
              !.connecting = FALSE,
              !.pingInterval = NoTimer,
              !.orphan = IF @ # "untracked" /\ s.socket.readyState = "CONNECTING"
                         THEN "opening" ELSE @,
              !.socket = NoSocket]

disconnect(s) ==
    [s EXCEPT !.connected = FALSE,
              !.connecting = FALSE,
              !.reconnectTimeout = NoTimer,
              !.pingInterval = NoTimer,
              !.orphan = IF @ # "untracked" /\ s.socket.readyState = "CONNECTING"
                         THEN "opening" ELSE @,
              !.socket = NoSocket]

scheduleReconnect(s) ==
    [s EXCEPT !.reconnectTimeout = ReconnectDelay]

connect(s) ==
    IF s.connecting \/ s.url = NoUrl
    THEN s
    ELSE LET d == [disconnect(s) EXCEPT !.connecting = TRUE]
         IN  IF ConstructorThrows(d.url)
             THEN scheduleReconnect([d EXCEPT !.connecting = FALSE])
             ELSE [d EXCEPT !.socket = [readyState |-> "CONNECTING", url |-> d.url]]

init(s, u) ==
    LET s1 == [s EXCEPT !.url = u]
    IN  IF s1.socket = NoSocket \/ s1.socket.url # u THEN connect(s1) ELSE s1

checkConnection(s) ==
    IF s.connected /\ (s.socket = NoSocket \/ s.socket.readyState # "OPEN")
    THEN connect([s EXCEPT !.connected = FALSE])
    ELSE s

startPingInterval(s) ==
    [s EXCEPT !.lastPingTime = 0, !.pingInterval = PingPeriod]

\* the keepalive test of the ping callback: lastPingTime && now - lastPingTime > 60000
Unresponsive_never(s) == FALSE

Unresponsive(s) == s.lastPingTime # NoTimer /\ s.lastPingTime > DeadAfter

\* WebSocketService.send: TRUE iff the message is handed to an OPEN socket
CanSend_whileClosing(s) == s.socket # NoSocket /\ s.socket.readyState \in {"OPEN", "CLOSING"}

CanSend(s) == s.socket # NoSocket /\ s.socket.readyState = "OPEN"

\* WebSocketService.isConnected
isConnected(s) == s.connected /\ s.socket # NoSocket /\ s.socket.readyState = "OPEN"

----------------------------------------------------------------------------
(* HomeScreen: the auto-listen effect.  It runs after a render in which one *)
(* of its dependencies changed: the timeout of the previous run is cleared  *)
(* and, if the coordinator is idle and listening, a new one is armed whose  *)
(* callback closes over the state of that render.                           *)

NoListenTimer ==
    [left |-> NoTimer,
     seen |-> [isRecording |-> FALSE, isProcessingAudio |-> FALSE, isSpeaking |-> FALSE]]

AutoListenEffect ==
    listenTimer' =
        IF <<isProcessingAudio', isSpeaking', isListening', autoListen'>>
             = <<isProcessingAudio, isSpeaking, isListening, autoListen>>
        THEN listenTimer
        ELSE IF autoListen' /\ ~isProcessingAudio' /\ ~isSpeaking'
                  /\ ~isRecording' /\ isListening'
             THEN [left |-> ListenDelay,
                   seen |-> [isRecording |-> isRecording',
                             isProcessingAudio |-> isProcessingAudio',
                             isSpeaking |-> isSpeaking']]
             ELSE NoListenTimer

----------------------------------------------------------------------------
(* AppContext: the conversation log.  A message is given Date.now() as its  *)
(* id; two calls of Date.now() in one handler return the same millisecond   *)
(* or the later one returns the next.                                       *)

MaxLog == 3             \* messages in the log
MaxNow == 2             \* milliseconds of Date.now() told apart

NoId == 0

Message(id, text, isUser, type) ==
    [id |-> id, text |-> text, isUser |-> isUser, type |-> type]

\* addMessage(text, isUser, type = 'normal', id = Date.now().toString())
addMessage(log, text, isUser, type, id) == Append(log, Message(id, text, isUser, type))

\* prevMessages.map(msg => msg.id === id ? { ...msg, text } : msg)
setText(log, id, text) ==
    [i \in DOMAIN log |-> IF log[i].id = id THEN [log[i] EXCEPT !.text = text] ELSE log[i]]

\* what a later Date.now() of the same handler can return
Later(t) == {u \in {t, t + 1} : u <= MaxNow}

\* setMessages(...) with the log that results
SetMessages(log) == messages' = IF logged THEN log ELSE messages

\* the handler reads Date.now() once more and it returns t
Elapse(t) == now' = IF logged THEN t ELSE now

----------------------------------------------------------------------------
(* AppContext.handleWebSocketMessage, by inbound payload *)

MessageKinds == {"aiResponseAudio", "aiResponseText", "pong", "error", "malformed"}

\* a payload of kind k that carries no transcription and no messageId
Plain(k) == [kind |-> k, transcription |-> "", messageId |-> NoId]

\* the payloads a server can send: an aiResponse may confirm a transcription
Inbound ==
    {Plain(k) : k \in MessageKinds}
        \cup [kind : {"aiResponseAudio", "aiResponseText"},
              transcription : {"hello"}, messageId : 1..MaxNow]

aiResponse(data) == data.kind \in {"aiResponseAudio", "aiResponseText"}

handleWebSocketMessage_staysSpeaking(data) ==
    /\ isSpeaking' = IF aiResponse(data) THEN TRUE ELSE isSpeaking
    /\ speakTimers' = IF data.kind = "aiResponseAudio"
                      THEN speakTimers \cup {SpeakDelay} ELSE speakTimers
    /\ isProcessingAudio' = IF aiResponse(data) \/ data.kind = "error"
                            THEN FALSE ELSE isProcessingAudio
    /\ LET confirmed == IF data.transcription # "" /\ data.messageId # NoId
                        THEN setText(messages, data.messageId, data.transcription)
                        ELSE messages
       IN  SetMessages(IF aiResponse(data)
                       THEN addMessage(confirmed, "reply", FALSE, "normal", now)
                       ELSE IF data.kind = "error"
                       THEN addMessage(messages, "Error: ", FALSE, "system", now)
                       ELSE messages)
    /\ UNCHANGED now

handleWebSocketMessage(data) ==
    /\ isSpeaking' = IF data.kind = "aiResponseAudio" THEN TRUE
                     ELSE IF data.kind = "aiResponseText" THEN FALSE
                     ELSE isSpeaking
    /\ speakTimers' = IF data.kind = "aiResponseAudio"
                      THEN speakTimers \cup {SpeakDelay} ELSE speakTimers
    /\ isProcessingAudio' = IF aiResponse(data) \/ data.kind = "error"
                            THEN FALSE ELSE isProcessingAudio
    /\ LET confirmed == IF data.transcription # "" /\ data.messageId # NoId
                        THEN setText(messages, data.messageId, data.transcription)
                        ELSE messages
       IN  SetMessages(IF aiResponse(data)
                       THEN addMessage(confirmed, "reply", FALSE, "normal", now)
                       ELSE IF data.kind = "error"
                       THEN addMessage(messages, "Error: ", FALSE, "system", now)
                       ELSE messages)
    /\ UNCHANGED now

----------------------------------------------------------------------------
(* BluetoothProvider (BluetoothContext): constants and the mounted state    *)
(* The Bluetooth clock counts units of 1000 ms.                            *)

MaxBtCalls == 2         \* Bluetooth calls suspended at an await at the same time
MaxConnects == 2        \* connectToDevice calls in one behaviour
MaxScans == 1           \* startScan calls that start a scan in one behaviour

HistoryLimit == 10          \* saveDeviceToHistory: slice(0, 10)
ScanResultsMs == 3000       \* setTimeout(..., 3000) of the simulated scan results
BLE_SCAN_TIMEOUT == 10000   \* TIME.BLE_SCAN_TIMEOUT, ms
BtUnitMs == 1000            \* one unit of the Bluetooth clock
ScanResultsDelay == ScanResultsMs \div BtUnitMs
ScanTimeout == BLE_SCAN_TIMEOUT \div BtUnitMs

NoDevice == 0
Stranger == 13          \* a device id that is in no list
exampleDevices == <<1, 2>>      \* the two devices every scan "finds"
NoError == "null"

Range(s) == {s[i] : i \in 1..Len(s)}
Take(s, n) == SubSeq(s, 1, IF Len(s) < n THEN Len(s) ELSE n)
Without(s, d) == SelectSeq(s, LAMBDA x : x # d)

(* What AsyncStorage may hold at startup: histories written by an earlier   *)
(* run (at most HistoryLimit distinct devices).                             *)
StoredHistories ==
    {<<>>, <<3, 4>>, [i \in 1..HistoryLimit |-> i + 2]}

(* The state once the mount effect has run: initializeBluetooth() and       *)
(* loadPreviousDevices() are both suspended at their first await.           *)
BtMounted(h) ==
    [isBluetoothEnabled |-> FALSE, isInitialized |-> FALSE, isScanning |-> FALSE,
     connectionState |-> "disconnected", error |-> NoError,
     discoveredDevices |-> <<>>, connectedDevice |-> NoDevice,
     previousDevices |-> <<>>,
     stored |-> h,              \* AsyncStorage[BLUETOOTH_DEVICES]
     booting |-> {"initializeBluetooth", "loadPreviousDevices"},
     calls |-> {},              \* calls suspended at an await, with their closures
     timers |-> {},             \* the timeouts set by startScan, with their closures
     scanAge |-> 0,             \* units since isScanning became true
     recent |-> h,              \* devices by their last successful connect, latest first
     connected |-> FALSE,       \* some connect has succeeded since the mount
     autoConnect |-> NoDevice,  \* the device the startup auto-connect was tried for
     connectWhileScanning |-> FALSE,  \* BleManager.connect was invoked with isScanning true
     stoppedFirst |-> FALSE,    \* a connect awaited stopScan before BleManager.connect
     connects |-> 0, scans |-> 0, lastOp |-> "mount"]

(* What the closures of one render see of the provider's state *)
Render(b) ==
    [isBluetoothEnabled |-> b.isBluetoothEnabled, isInitialized |-> b.isInitialized,
     isScanning |-> b.isScanning, discoveredDevices |-> b.discoveredDevices,
     previousDevices |-> b.previousDevices, connectedDevice |-> b.connectedDevice]

(* The render of the mount: the closures of the mount effect see this.      *)
MountRender == Render(BtMounted(<<>>))

----------------------------------------------------------------------------
(* AudioModule (Kotlin): constants, byte arrays and the fresh module.  A     *)
(* byte array is a sequence of numbers in 0..255, a 16-bit sample a number   *)
(* in 0..65535, a Base64 string a sequence of sextets in 0..63 and Pad.      *)

MaxSamples == 2         \* samples the recorder delivers in one recording

SAMPLE_RATE == 44100
BytesPerSample == 2     \* ENCODING_PCM_16BIT, one channel
Samples == {0, 300}     \* the values the microphone delivers
Pad == 64               \* the character '='
NoTrack == [sampleRateInHz |-> 0, frames |-> <<>>, state |-> "none"]
NoResult == [audioBase64 |-> <<>>, captured |-> <<>>]

\* value.toByte(), (value shr 8).toByte(), ...
intToByteArray(value) ==
    <<value % 256, (value \div 256) % 256, (value \div 65536) % 256,
      (value \div 16777216) % 256>>

shortToByteArray(value) == <<value % 256, (value \div 256) % 256>>

\* "RIFF", "WAVE", "fmt " and "data" as bytes
ChunkID == <<82, 73, 70, 70>>
Format == <<87, 65, 86, 69>>
Subchunk1ID == <<102, 109, 116, 32>>
Subchunk2ID == <<100, 97, 116, 97>>

\* the bytes of a sequence of samples, little-endian, as AudioRecord.read gives them
PcmBytes(samples) ==
    [k \in 1..(BytesPerSample * Len(samples)) |->
        shortToByteArray(samples[(k + 1) \div 2])[2 - (k % 2)]]

\* the 16-bit frames AudioTrack renders of the bytes written to it
Frames(bytes) ==
    [i \in 1..(Len(bytes) \div BytesPerSample) |-> bytes[2 * i - 1] + 256 * bytes[2 * i]]

\* Base64.encodeToString(bytes, Base64.DEFAULT); the line terminators, which
\* decode skips, are left out
Base64Encode(bytes) ==
    LET n == Len(bytes)
        b(k) == IF k <= n THEN bytes[k] ELSE 0
        v(g) == b(3 * g + 1) * 65536 + b(3 * g + 2) * 256 + b(3 * g + 3)
        char(g, pos) ==
            IF 3 * g + pos > n + 1 THEN Pad
            ELSE IF pos = 1 THEN v(g) \div 262144
            ELSE IF pos = 2 THEN (v(g) \div 4096) % 64
            ELSE IF pos = 3 THEN (v(g) \div 64) % 64
            ELSE v(g) % 64
    IN  [j \in 1..(4 * ((n + 2) \div 3)) |-> char((j - 1) \div 4, ((j - 1) % 4) + 1)]

\* Base64.decode(chars, Base64.DEFAULT)
Base64Decode(chars) ==
    LET pads == Cardinality({j \in DOMAIN chars : chars[j] = Pad})
        c(j) == IF chars[j] = Pad THEN 0 ELSE chars[j]
        v(g) == c(4 * g + 1) * 262144 + c(4 * g + 2) * 4096 + c(4 * g + 3) * 64 + c(4 * g + 4)
        byte(g, pos) ==
            IF pos = 1 THEN v(g) \div 65536
            ELSE IF pos = 2 THEN (v(g) \div 256) % 256
            ELSE v(g) % 256
    IN  [k \in 1..(3 * (Len(chars) \div 4) - pads) |-> byte((k - 1) \div 3, ((k - 1) % 3) + 1)]

\* convertPcmToWavBase64 up to the encoding: the WAV header, then the PCM data
WavBytes_headerless(pcmData) == pcmData

WavBytes(pcmData) ==
    LET totalDataLen == Len(pcmData) + 36
        byteRate == SAMPLE_RATE * 2
    IN  ChunkID \o intToByteArray(totalDataLen) \o Format
        \o Subchunk1ID \o intToByteArray(16) \o shortToByteArray(1) \o shortToByteArray(1)
        \o intToByteArray(SAMPLE_RATE) \o intToByteArray(byteRate)
        \o shortToByteArray(2) \o shortToByteArray(16)
        \o Subchunk2ID \o intToByteArray(Len(pcmData))
        \o pcmData

convertPcmToWavBase64(pcmData) == Base64Encode(WavBytes(pcmData))

InitModule ==
    audioModule = [isRecording |-> FALSE, isPlaying |-> FALSE,
                   recordingFile |-> <<>>,      \* the bytes of the .pcm file
                   mic |-> <<>>,                \* the samples AudioRecord.read has delivered
                   result |-> NoResult,         \* what stopRecording resolved with, and
                                                \* the samples of that recording
                   audioTrack |-> NoTrack,
                   rendered |-> 0,              \* samples the finished playbacks rendered
                   monitor |-> "none",          \* where the playback thread is in
                                                \* monitorPlaybackCompletion
                   events |-> <<>>]             \* the terminal events sent for the
                                                \* latest playback

----------------------------------------------------------------------------
(* Initial state: AppProvider has mounted, its effect has called           *)
(* WebSocketService.init(settings.wsServerUrl) and registered the          *)
(* callbacks; nothing has been recorded, sent or received yet.             *)

wsFresh ==
    [url |-> NoUrl, socket |-> NoSocket, connected |-> FALSE, connecting |-> FALSE,
     reconnectTimeout |-> NoTimer, pingInterval |-> NoTimer, lastPingTime |-> NoTimer,
     heard |-> FALSE, orphan |-> "untracked"]

InitNet ==
    /\ \E u \in Urls : ws = init(wsFresh, u)
    /\ wsConnected = FALSE
    /\ isProcessingAudio = FALSE
    /\ isSpeaking = FALSE
    /\ speakTimers = {}
    /\ mounted = TRUE
    /\ lastOp = "init"
    /\ forceCloses = 0

InitMsg ==
    /\ pendingMessages = <<>>
    /\ nextMsg = 1
    /\ outcome = [n \in 1..MaxMsgs |-> "none"]
    /\ wire = <<>>
    /\ dequeued = <<>>

Slots == 1..MaxCalls
NoOpts == [detectSilence |-> FALSE, useVoiceRecognition |-> FALSE]
NoCall == [op |-> "none", pc |-> "none", by |-> "none", opts |-> NoOpts,
           seenRecording |-> FALSE, seenConnected |-> FALSE]
NoListener == [by |-> "none", seenRecording |-> FALSE]
NoSound == [state |-> "none", onEnd |-> 0]

InitAudio ==
    /\ au = [isRecording |-> FALSE, isInitialized |-> FALSE, recordOptions |-> NoOpts,
             silenceTimer |-> NoTimer, currentSound |-> 0,
             lastTranscription |-> ""]
    /\ rec = [starts |-> 0, listener |-> NoListener, fired |-> 0, quietFor |-> 0,
              partial |-> "", final |-> ""]
    /\ calls = [c \in Slots |-> NoCall]
    /\ playCalls = [c \in 1..MaxPlays |-> [pc |-> "idle", settles |-> 0]]
    /\ sounds = [c \in 1..MaxPlays |-> NoSound]

InitHome ==
    /\ isRecording = FALSE
    /\ isListening = FALSE
    /\ autoListen = TRUE
    /\ listenTimer = NoListenTimer
    /\ busyStart = FALSE

\* the conversation log: nothing is stored, nothing has been said
InitLog(kept) ==
    /\ messages = <<>>
    /\ now = 1
    /\ logged = kept
    /\ received = "none"

InitApp == InitNet /\ InitMsg /\ InitAudio /\ InitHome /\ InitModule

Init == InitApp /\ bt = BtMounted(<<>>) /\ InitLog(FALSE)

----------------------------------------------------------------------------
(* The transport (the WebSocket object) and the service's event handlers *)

\* the connection is established: socket.onopen -> handleOpen -> onConnect callback
HandleOpen ==
    /\ UNCHANGED <<bt, audioModule, logged>>
    /\ ws.socket.readyState = "CONNECTING"
    /\ ws' = startPingInterval([ws EXCEPT !.socket.readyState = "OPEN",
                                          !.connected = TRUE,
                                          !.connecting = FALSE])
    /\ wsConnected' = TRUE
    /\ SetMessages(addMessage(messages, "Connected to AI assistant", FALSE, "system", now))
    /\ UNCHANGED <<now, received>>
    /\ forceCloses' = 0
    /\ lastOp' = "other"
    /\ UNCHANGED <<isProcessingAudio, isSpeaking, speakTimers, mounted>>
    /\ UNCHANGED msgVars
    /\ UNCHANGED deviceVars
    /\ UNCHANGED listenTimer

\* the server starts the closing handshake: readyState becomes CLOSING, no event yet
ServerClosing ==
    /\ UNCHANGED <<bt, audioModule, logVars>>
    /\ ws.socket.readyState = "OPEN"
    /\ ws' = [ws EXCEPT !.socket.readyState = "CLOSING"]
    /\ lastOp' = "other"
    /\ UNCHANGED <<wsConnected, isProcessingAudio, isSpeaking, speakTimers, mounted>>
    /\ UNCHANGED <<forceCloses>>
    /\ UNCHANGED msgVars
    /\ UNCHANGED deviceVars
    /\ UNCHANGED listenTimer

\* the transport is closed or the attempt failed: (handleError,) handleClose
handleClose_noReconnect(s) ==
    [s EXCEPT !.socket.readyState = "CLOSED",
              !.connected = FALSE,
              !.connecting = FALSE]

handleClose(s) ==
    scheduleReconnect([s EXCEPT !.socket.readyState = "CLOSED",
                                !.connected = FALSE,
                                !.connecting = FALSE])

HandleClose ==
    /\ UNCHANGED <<bt, audioModule, logged>>
    /\ ws.socket.readyState \in {"CONNECTING", "OPEN", "CLOSING"}
    /\ ws' = handleClose(ws)
    /\ wsConnected' = FALSE
    /\ \E t \in Later(now) :
          /\ SetMessages(
                 LET failed == IF ws.socket.readyState = "CONNECTING"
                               THEN addMessage(messages, "Error connecting to AI assistant",
                                               FALSE, "system", now)
                               ELSE messages
                 IN  addMessage(failed, "Disconnected from AI assistant",
                                FALSE, "system", t))
          /\ Elapse(t)
    /\ UNCHANGED received
    /\ lastOp' = IF ws.socket.readyState = "CONNECTING" THEN "fail" ELSE "close"
    /\ UNCHANGED <<isProcessingAudio, isSpeaking, speakTimers, mounted>>
    /\ UNCHANGED <<forceCloses>>
    /\ UNCHANGED msgVars
    /\ UNCHANGED deviceVars
    /\ UNCHANGED listenTimer

\* socket.onmessage -> handleMessage: the onMessage callback, then the pong
\* test; JSON.parse throws on a malformed payload, in the callback's try and
\* in handleMessage's own
handleMessage_malformedCloses(s, data) ==
    IF data.kind = "pong" THEN [s EXCEPT !.lastPingTime = 0]
    ELSE IF data.kind = "malformed" THEN handleClose(s) ELSE s

handleMessage(s, data) ==
    IF data.kind = "pong" THEN [s EXCEPT !.lastPingTime = 0] ELSE s

Receive(data) ==
    /\ UNCHANGED <<bt, audioModule, logged>>
    /\ ws.socket.readyState \in {"OPEN", "CLOSING"}
    /\ handleWebSocketMessage(data)
    /\ ws' = [handleMessage(ws, data) EXCEPT !.heard = TRUE]
    /\ received' = IF logged THEN data.kind ELSE received
    /\ lastOp' = "other"
    /\ UNCHANGED <<wsConnected, mounted>>
    /\ UNCHANGED <<forceCloses>>
    /\ UNCHANGED msgVars
    /\ UNCHANGED deviceVars
    /\ AutoListenEffect

\* a payload without transcription and messageId
HandleMessage(kind) == Receive(Plain(kind))

\* the reconnect timer expires: its callback calls connect()
ReconnectFire ==
    /\ UNCHANGED <<bt, audioModule, logVars>>
    /\ ws.reconnectTimeout = 0
    /\ ws' = connect([ws EXCEPT !.reconnectTimeout = NoTimer])
    /\ lastOp' = "reconnect"
    /\ UNCHANGED <<wsConnected, isProcessingAudio, isSpeaking, speakTimers, mounted>>
    /\ UNCHANGED <<forceCloses>>
    /\ UNCHANGED msgVars
    /\ UNCHANGED deviceVars
    /\ UNCHANGED listenTimer

\* the callback of setInterval in startPingInterval
pingCallback(s) ==
    IF CanSend(s) /\ Unresponsive(s) THEN connect(disconnect(s)) ELSE s

PingFire ==
    /\ UNCHANGED <<bt, audioModule, logVars>>
    /\ ws.pingInterval = 0
    /\ ws' = pingCallback([ws EXCEPT !.pingInterval = PingPeriod])
    /\ forceCloses' = IF CanSend(ws) /\ Unresponsive(ws)
                      THEN Min(forceCloses + 1, 2) ELSE forceCloses
    /\ lastOp' = IF CanSend(ws) /\ Unresponsive(ws) THEN "forceClose" ELSE "other"
    /\ UNCHANGED <<wsConnected, isProcessingAudio, isSpeaking, speakTimers, mounted>>
    /\ UNCHANGED msgVars
    /\ UNCHANGED deviceVars
    /\ UNCHANGED listenTimer

\* AppState becomes active: AppContext and the listener of init call checkConnection
AppForeground ==
    /\ UNCHANGED <<bt, audioModule, logVars>>
    /\ mounted
    /\ ws' = checkConnection(ws)
    /\ lastOp' = "other"
    /\ UNCHANGED <<wsConnected, isProcessingAudio, isSpeaking, speakTimers, mounted>>
    /\ UNCHANGED <<forceCloses>>
    /\ UNCHANGED msgVars
    /\ UNCHANGED deviceVars
    /\ UNCHANGED listenTimer

\* settings.wsServerUrl changes: the effect's cleanup calls disconnect(),
\* then the effect runs again and calls init(url)
ServerUrlChange(u) ==
    /\ UNCHANGED <<bt, audioModule, logVars>>
    /\ mounted
    /\ u # ws.url
    /\ ws' = init(disconnect(ws), u)
    /\ lastOp' = "urlChange"
    /\ UNCHANGED <<wsConnected, isProcessingAudio, isSpeaking, speakTimers, mounted>>
    /\ UNCHANGED <<forceCloses>>
    /\ UNCHANGED msgVars
    /\ UNCHANGED deviceVars
    /\ UNCHANGED listenTimer

\* AppProvider unmounts: the effect's cleanup calls disconnect()
ProviderUnmount ==
    /\ UNCHANGED <<bt, audioModule, logVars>>
    /\ mounted
    /\ ws' = disconnect(ws)
    /\ mounted' = FALSE
    /\ lastOp' = "other"
    /\ UNCHANGED <<wsConnected, isProcessingAudio, isSpeaking, speakTimers>>
    /\ UNCHANGED <<forceCloses>>
    /\ UNCHANGED msgVars
    /\ UNCHANGED deviceVars
    /\ UNCHANGED listenTimer

\* AppProvider mounts again: init(url) and the callbacks are registered anew
ProviderMount(u) ==
    /\ UNCHANGED <<bt, audioModule, logVars>>
    /\ ~mounted
    /\ ws' = init(ws, u)
    /\ mounted' = TRUE
    /\ wsConnected' = FALSE
    /\ isProcessingAudio' = FALSE
    /\ isSpeaking' = FALSE
    /\ lastOp' = "init"
    /\ UNCHANGED <<speakTimers, forceCloses>>
    /\ UNCHANGED msgVars
    /\ UNCHANGED deviceVars
    /\ AutoListenEffect

\* the timeout armed by an aiResponse with audio expires: setIsSpeaking(false)
SpeakTimerFire ==
    /\ UNCHANGED <<bt, audioModule, logVars>>
    /\ 0 \in speakTimers
    /\ speakTimers' = speakTimers \ {0}
    /\ isSpeaking' = FALSE
    /\ lastOp' = "other"
    /\ UNCHANGED <<ws, wsConnected, isProcessingAudio, mounted, forceCloses>>
    /\ UNCHANGED msgVars
    /\ UNCHANGED deviceVars
    /\ AutoListenEffect

\* a socket that was dropped while CONNECTING is gone: the server refused or
\* closed it; it has no handlers, so the service hears nothing of it
OrphanCloses ==
    /\ UNCHANGED <<bt, audioModule, logVars>>
    /\ ws.orphan = "opening"
    /\ ws' = [ws EXCEPT !.orphan = "none"]
    /\ lastOp' = "other"
    /\ UNCHANGED <<wsConnected, isProcessingAudio, isSpeaking, speakTimers, mounted>>
    /\ UNCHANGED <<forceCloses>>
    /\ UNCHANGED msgVars
    /\ UNCHANGED deviceVars
    /\ UNCHANGED listenTimer

----------------------------------------------------------------------------
(* The clock *)

Dec(t) == IF t = NoTimer THEN NoTimer ELSE t - 1
Age(t) == IF t = NoTimer THEN NoTimer ELSE Min(t + 1, AgeCap)

NetTimerDue == ws.reconnectTimeout = 0 \/ ws.pingInterval = 0

\* the network clock advances by one reconnect interval
Tick ==
    /\ UNCHANGED <<bt, audioModule, logVars>>
    /\ ~NetTimerDue
    /\ ws' = [ws EXCEPT !.reconnectTimeout = Dec(@),
                        !.pingInterval = Dec(@),
                        !.lastPingTime = Age(@),
                        !.heard = FALSE]
    /\ lastOp' = "other"
    /\ UNCHANGED <<wsConnected, isProcessingAudio, isSpeaking, speakTimers, mounted>>
    /\ UNCHANGED <<forceCloses>>
    /\ UNCHANGED msgVars
    /\ UNCHANGED deviceVars
    /\ UNCHANGED listenTimer

----------------------------------------------------------------------------
(* The session alone *)

NetKinds == {"pong", "error"}

NextNet ==
    \/ HandleOpen
    \/ ServerClosing
    \/ HandleClose
    \/ \E k \in NetKinds : HandleMessage(k)
    \/ ReconnectFire
    \/ PingFire
    \/ AppForeground
    \/ \E u \in Urls : ServerUrlChange(u)
    \/ ProviderUnmount
    \/ \E u \in Urls : ProviderMount(u)
    \/ Tick

SpecNet == Init /\ [][NextNet]_vars

(* The session and the sockets it has dropped *)
InitSock ==
    /\ \E u \in Urls : ws = init([wsFresh EXCEPT !.orphan = "none"], u)
    /\ wsConnected = FALSE
    /\ isProcessingAudio = FALSE
    /\ isSpeaking = FALSE
    /\ speakTimers = {}
    /\ mounted = TRUE
    /\ lastOp = "init"
    /\ forceCloses = 0
    /\ InitMsg /\ InitAudio /\ InitHome /\ InitModule
    /\ bt = BtMounted(<<>>)
    /\ InitLog(FALSE)

NextSock ==
    \/ HandleOpen
    \/ ServerClosing
    \/ HandleClose
    \/ \E k \in NetKinds : HandleMessage(k)
    \/ ReconnectFire
    \/ PingFire
    \/ AppForeground
    \/ \E u \in Urls : ServerUrlChange(u)
    \/ ProviderUnmount
    \/ \E u \in Urls : ProviderMount(u)
    \/ OrphanCloses
    \/ Tick

SpecSock == InitSock /\ [][NextSock]_vars

\* Timer callbacks run when they are due and the clock keeps advancing.
FairSpecNet ==
    /\ SpecNet
    /\ WF_vars(Tick)
    /\ WF_vars(ReconnectFire)
    /\ WF_vars(PingFire)

----------------------------------------------------------------------------
(* AppContext: outbound messages and the offline queue *)

\* a payload as JSON.stringify-ed for the socket
Payload(n, isText) ==
    [messageId |-> n, type |-> IF isText THEN "textMessage" ELSE "audioMessage"]

\* an entry of pendingMessages
Pending(n, isText) == [messageId |-> n, isText |-> isText]

Offline == "I'm currently offline. I'll process your message when I reconnect."
Saved == "Message saved for when connection is restored"

\* what sendAudioToServer / sendTextToServer do with a new message: the
\* wsConnected of the render that created the function selects send or
\* enqueue, the result of send is not looked at
Dispatch(n, isText, seenConnected) ==
    IF seenConnected
    THEN /\ wire' = IF CanSend(ws) THEN Append(wire, Payload(n, isText)) ELSE wire
         /\ outcome' = [outcome EXCEPT ![n] = IF CanSend(ws) THEN "sent" ELSE "dropped"]
         /\ UNCHANGED pendingMessages
    ELSE /\ pendingMessages' = Append(pendingMessages, Pending(n, isText))
         /\ outcome' = [outcome EXCEPT ![n] = "queued"]
         /\ UNCHANGED wire

sendTextToServer ==
    /\ UNCHANGED <<bt, audioModule, logged>>
    /\ mounted
    /\ nextMsg <= MaxMsgs
    /\ Dispatch(nextMsg, TRUE, wsConnected)
    /\ \E t \in Later(now) :
          /\ SetMessages(
                 LET sent == addMessage(messages, "text", TRUE, "normal", now)
                 IN  IF wsConnected THEN sent
                     ELSE addMessage(sent, Offline, FALSE, "system", t))
          /\ Elapse(IF wsConnected THEN now ELSE t)
    /\ UNCHANGED received
    /\ nextMsg' = nextMsg + 1
    /\ lastOp' = "other"
    /\ UNCHANGED <<ws, wsConnected, isProcessingAudio, isSpeaking, speakTimers, mounted>>
    /\ UNCHANGED <<dequeued, forceCloses>>
    /\ UNCHANGED deviceVars
    /\ UNCHANGED listenTimer

sendAudioToServer ==
    /\ UNCHANGED <<bt, audioModule, logged>>
    /\ mounted
    /\ nextMsg <= MaxMsgs
    /\ Dispatch(nextMsg, FALSE, wsConnected)
    /\ \E t \in Later(now) :
          /\ SetMessages(
                 LET sent == addMessage(messages, "Listening...", TRUE, "normal", now)
                 IN  IF wsConnected THEN sent
                     ELSE addMessage(setText(sent, now, Saved), Offline, FALSE, "system", t))
          /\ Elapse(IF wsConnected THEN now ELSE t)
    /\ UNCHANGED received
    /\ isProcessingAudio' = wsConnected
    /\ nextMsg' = nextMsg + 1
    /\ lastOp' = "other"
    /\ UNCHANGED <<ws, wsConnected, isSpeaking, speakTimers, mounted>>
    /\ UNCHANGED <<dequeued, forceCloses>>
    /\ UNCHANGED deviceVars
    /\ AutoListenEffect

\* const [firstPending, ...remainingPending] = pendingMessages
firstPending_last(q) == q[Len(q)]

firstPending(q) == Head(q)

remainingPending(q) == Tail(q)

\* the effect on [wsConnected, pendingMessages] and processPendingMessages
DrainDue == mounted /\ wsConnected /\ pendingMessages # <<>>

processPendingMessages ==
    /\ UNCHANGED <<bt, audioModule, logged>>
    /\ DrainDue
    /\ LET first == firstPending(pendingMessages)
       IN  /\ pendingMessages' = remainingPending(pendingMessages)
           /\ dequeued' = Append(dequeued, first.messageId)
           /\ wire' = IF CanSend(ws)
                      THEN Append(wire, Payload(first.messageId, first.isText))
                      ELSE wire
    /\ SetMessages(addMessage(messages, "Processing your offline messages...",
                               FALSE, "system", now))
    /\ UNCHANGED <<now, received>>
    /\ isProcessingAudio' = TRUE
    /\ lastOp' = "other"
    /\ UNCHANGED <<ws, wsConnected, isSpeaking, speakTimers, mounted>>
    /\ UNCHANGED <<nextMsg, outcome, forceCloses>>
    /\ UNCHANGED deviceVars
    /\ AutoListenEffect

\* React runs the effect right after the render that changed its
\* dependencies, before any later event is handled.
NextMsg ==
    \/ processPendingMessages
    \/ ~DrainDue /\ sendTextToServer
    \/ ~DrainDue /\ sendAudioToServer
    \/ ~DrainDue /\ NextNet

SpecMsg == Init /\ [][NextMsg]_vars

\* Timer callbacks and the drain effect run when they are due, the clock keeps
\* advancing and a connection attempt is answered by the server. Nothing
\* obliges the server to send a message.
FairSpecMsg ==
    /\ SpecMsg
    /\ WF_vars(Tick)
    /\ WF_vars(ReconnectFire)
    /\ WF_vars(PingFire)
    /\ WF_vars(HandleOpen)
    /\ WF_vars(processPendingMessages)

----------------------------------------------------------------------------
(* AudioService: recording.  startRecording and stopRecording are async:   *)
(* a call runs up to its next await and is then kept in calls until the    *)
(* awaited native operation completes.  The methods are functions of       *)
(* st = [au, rec, calls].                                                  *)

Svc == [au |-> au, rec |-> rec, calls |-> calls]
SetSvc(st) == au' = st.au /\ rec' = st.rec /\ calls' = st.calls

HasFree(cs) == \E c \in Slots : cs[c].op = "none"
FreeSlot(cs) ==
    CHOOSE c \in Slots : cs[c].op = "none" /\ \A d \in Slots : d < c => cs[d].op # "none"

\* AudioRecord.start(): a recorder that was stopped begins a new recording
recorderStart(r) ==
    [r EXCEPT !.starts = Min(r.starts + 1, 2),
              !.fired = IF r.starts = 0 THEN 0 ELSE r.fired,
              !.quietFor = IF r.starts = 0 THEN 0 ELSE r.quietFor]

\* startSilenceDetection: clears the timer, AudioRecord.on('data', ...) replaces the listener
startSilenceDetection(st, who, seenRec) ==
    [st EXCEPT !.au.silenceTimer = NoTimer,
               !.rec.listener = [by |-> who, seenRecording |-> seenRec]]

\* startRecording from AudioRecord.start() to its end
StartFinish(st, c) ==
    LET k == st.calls[c]
        s1 == [st EXCEPT !.rec = recorderStart(st.rec),
                         !.au.isRecording = TRUE,
                         !.calls[c] = NoCall]
    IN  IF k.opts.detectSilence
        THEN startSilenceDetection(s1, k.by, k.seenRecording)
        ELSE s1

\* startRecording from "this.recordOptions = options" to await Voice.start()
StartBody(st, c) ==
    LET s1 == [st EXCEPT !.au.recordOptions = st.calls[c].opts,
                         !.au.lastTranscription = "",
                         !.rec.partial = "", !.rec.final = ""]
    IN  IF st.calls[c].opts.useVoiceRecognition
        THEN [s1 EXCEPT !.calls[c].pc = "voiceStart"]
        ELSE StartFinish(s1, c)

\* stopRecording of a recording service, up to await AudioRecord.stop()
StopBegin(st, c) ==
    [st EXCEPT !.au.silenceTimer = NoTimer, !.calls[c].pc = "recordStop"]

\* startRecording after "if (!this.isInitialized) await this.initialize()"
AfterInitialize(st, c) ==
    IF st.au.isRecording THEN StopBegin(st, c) ELSE StartBody(st, c)

\* AudioService.startRecording(options), up to its first await
startRecording(st, opts, who, seenRec) ==
    LET c == FreeSlot(st.calls)
        s1 == [st EXCEPT !.calls[c] =
                   [op |-> "start", pc |-> "initialize", by |-> who, opts |-> opts,
                    seenRecording |-> seenRec, seenConnected |-> FALSE]]
    IN  IF ~st.au.isInitialized THEN s1 ELSE AfterInitialize(s1, c)

\* AudioService.stopRecording(), up to its first await; null if not recording
stopRecording(st, who, seenConn) ==
    IF ~st.au.isRecording
    THEN st
    ELSE LET c == FreeSlot(st.calls)
         IN  StopBegin([st EXCEPT !.calls[c] =
                            [op |-> "stop", pc |-> "recordStop", by |-> who, opts |-> NoOpts,
                             seenRecording |-> FALSE, seenConnected |-> seenConn]], c)

\* Sound.stop() and Sound.release(): a loaded Sound is stopped and freed and its
\* play callback is never called; on a Sound that is not loaded both do nothing
stopAndRelease(snd) ==
    IF snd.state \in {"loaded", "playing"} THEN [state |-> "released", onEnd |-> 0] ELSE snd

\* AudioService.cleanup()
cleanup(st) ==
    LET s1 == IF st.au.isRecording THEN stopRecording(st, "cleanup", FALSE) ELSE st
    IN  [s1 EXCEPT !.au.currentSound = 0,
                   !.au.silenceTimer = NoTimer,
                   !.au.isInitialized = FALSE]

----------------------------------------------------------------------------
(* AudioService called directly *)

OptionSets == [detectSilence : BOOLEAN, useVoiceRecognition : BOOLEAN]

CallStartRecording(opts) ==
    /\ UNCHANGED <<bt, audioModule, logVars>>
    /\ HasFree(calls)
    /\ SetSvc(startRecording(Svc, opts, "api", FALSE))
    /\ lastOp' = "other"
    /\ UNCHANGED <<netVars, msgVars, playVars, hsVars, listenTimer, forceCloses>>

CallStopRecording ==
    /\ UNCHANGED <<bt, audioModule, logVars>>
    /\ au.isRecording => HasFree(calls)
    /\ SetSvc(stopRecording(Svc, "api", FALSE))
    /\ lastOp' = "other"
    /\ UNCHANGED <<netVars, msgVars, playVars, hsVars, listenTimer, forceCloses>>

Cleanup ==
    /\ UNCHANGED <<bt, audioModule, logVars>>
    /\ au.isRecording => HasFree(calls)
    /\ SetSvc(cleanup(Svc))
    /\ sounds' = IF au.currentSound = 0 THEN sounds
                 ELSE [sounds EXCEPT ![au.currentSound] = stopAndRelease(@)]
    /\ lastOp' = "other"
    /\ UNCHANGED <<netVars, msgVars, playCalls, hsVars, listenTimer, forceCloses>>

----------------------------------------------------------------------------
(* The awaited operations of a recording call complete *)

\* the call of slot c ends by throwing; handleStartRecording catches: setIsRecording(false)
Rejected_recorderStarted(c) ==
    /\ calls' = [calls EXCEPT ![c] = NoCall]
    /\ isRecording' = IF calls[c].by = "ui" THEN FALSE ELSE isRecording
    /\ rec' = recorderStart(rec)
    /\ UNCHANGED <<isListening, autoListen, busyStart>>

Rejected(c) ==
    /\ calls' = [calls EXCEPT ![c] = NoCall]
    /\ isRecording' = IF calls[c].by = "ui" THEN FALSE ELSE isRecording
    /\ UNCHANGED <<rec, isListening, autoListen, busyStart>>

\* initialize() ends: the permission check and AudioRecord.init(...) change no
\* state until both are through, so they are one step; ok = FALSE is the
\* permission refused or AudioRecord.init rejecting
InitializeDone(c, ok) ==
    /\ UNCHANGED <<bt, audioModule, logVars>>
    /\ calls[c].pc = "initialize"
    /\ IF ok
       THEN /\ SetSvc(AfterInitialize([Svc EXCEPT !.au.isInitialized = TRUE], c))
            /\ UNCHANGED hsVars
       ELSE Rejected(c) /\ UNCHANGED au
    /\ lastOp' = IF ok THEN "other" ELSE "rejected"
    /\ UNCHANGED <<netVars, msgVars, playVars, listenTimer, forceCloses>>

\* Voice.start('en-US') resolves or rejects: recording starts either way
VoiceStarted(c) ==
    /\ UNCHANGED <<bt, audioModule, logVars>>
    /\ calls[c].pc = "voiceStart"
    /\ SetSvc(StartFinish(Svc, c))
    /\ lastOp' = "other"
    /\ UNCHANGED <<netVars, msgVars, playVars, hsVars, listenTimer, forceCloses>>

\* Voice.stop() has resolved or rejected and AudioRecord.stop() resolves: the
\* recorder is stopped, isRecording = false (nothing happens between the two).
\* A stop inside startRecording goes on with the start; a stop awaited by
\* handleStopRecording hands the clip to sendAudioToServer.
RecordStopped(c) ==
    /\ UNCHANGED <<bt, audioModule, logVars>>
    /\ calls[c].pc = "recordStop"
    /\ LET st == [Svc EXCEPT !.rec.starts = 0, !.au.isRecording = FALSE]
       IN  IF calls[c].op = "start"
           THEN SetSvc(StartBody(st, c))
           ELSE SetSvc([st EXCEPT !.calls[c] = NoCall])
    /\ IF calls[c].op = "stop" /\ calls[c].by = "ui"
       THEN /\ nextMsg <= MaxMsgs
            /\ Dispatch(nextMsg, FALSE, calls[c].seenConnected)
            /\ isProcessingAudio' = calls[c].seenConnected
            /\ nextMsg' = nextMsg + 1
            /\ UNCHANGED dequeued
       ELSE UNCHANGED <<msgVars, isProcessingAudio>>
    /\ lastOp' = "other"
    /\ UNCHANGED <<ws, wsConnected, isSpeaking, speakTimers, mounted>>
    /\ UNCHANGED <<playVars, hsVars, forceCloses>>
    /\ AutoListenEffect

----------------------------------------------------------------------------
(* The recorder's data frames and the silence timer *)

\* HomeScreen.handleStopRecording as closed over a render that saw seenRec, seenConn
handleStopRecording(st, seenRec, seenConn) ==
    IF ~seenRec THEN st ELSE stopRecording(st, "ui", seenConn)

\* the listener of startSilenceDetection: every frame re-arms the timer
Frame(loud) ==
    /\ UNCHANGED <<bt, audioModule, logVars>>
    /\ rec.starts > 0
    /\ rec.listener.by # "none"
    /\ au' = [au EXCEPT !.silenceTimer = SilenceDelay]
    /\ rec' = [rec EXCEPT !.quietFor = IF loud THEN 0 ELSE rec.quietFor]
    /\ lastOp' = "other"
    /\ UNCHANGED calls
    /\ UNCHANGED <<netVars, msgVars, playVars, hsVars, listenTimer, forceCloses>>

\* the silence timer expires: if (this.isRecording && callback) callback()
SilenceFire ==
    /\ UNCHANGED <<bt, audioModule, logVars>>
    /\ au.silenceTimer = 0
    /\ (au.isRecording /\ rec.listener.seenRecording) => HasFree(calls)
    /\ LET st == [Svc EXCEPT !.au.silenceTimer = NoTimer]
           cb == rec.listener
       IN  IF ~au.isRecording
           THEN SetSvc(st) /\ UNCHANGED isRecording /\ lastOp' = "other"
           ELSE /\ lastOp' = "silenceDetected"
                /\ LET s1 == [st EXCEPT !.rec.fired = Min(rec.fired + 1, 2)]
                   IN  IF cb.by = "ui"
                       THEN /\ SetSvc(handleStopRecording(s1, cb.seenRecording, wsConnected))
                            /\ isRecording' = IF cb.seenRecording THEN FALSE ELSE isRecording
                       ELSE SetSvc(s1) /\ UNCHANGED isRecording
    /\ UNCHANGED <<isListening, autoListen, busyStart>>
    /\ UNCHANGED <<netVars, msgVars, playVars, listenTimer, forceCloses>>

\* the clock of the audio service and the screens advances by 1000 ms
UiTimerDue == au.silenceTimer = 0 \/ listenTimer.left = 0 \/ 0 \in speakTimers

\* a frame has arrived since the last tick: the silence timer is freshly armed
FramedLately == au.silenceTimer = SilenceDelay

TickUi ==
    /\ UNCHANGED <<bt, audioModule, logVars>>
    /\ ~UiTimerDue
    /\ au' = [au EXCEPT !.silenceTimer = Dec(@)]
    /\ rec' = [rec EXCEPT !.quietFor = IF rec.starts > 0 /\ FramedLately THEN Min(@ + 1, QuietCap) ELSE 0]
    /\ listenTimer' = [listenTimer EXCEPT !.left = Dec(@)]
    /\ speakTimers' = {t - 1 : t \in speakTimers}
    /\ lastOp' = "other"
    /\ UNCHANGED <<ws, wsConnected, isProcessingAudio, isSpeaking, mounted>>
    /\ UNCHANGED <<calls, msgVars, playVars, hsVars, forceCloses>>

NextRec ==
    \/ \E o \in OptionSets : CallStartRecording(o)
    \/ CallStopRecording
    \/ Cleanup
    \/ \E c \in Slots, ok \in BOOLEAN : InitializeDone(c, ok)
    \/ \E c \in Slots : VoiceStarted(c)
    \/ \E c \in Slots : RecordStopped(c)
    \/ \E l \in BOOLEAN : Frame(l)
    \/ SilenceFire
    \/ TickUi

SpecRec == Init /\ [][NextRec]_vars

(* The recording calls and the recorder's frames without the clock *)
NextRecCalls ==
    \/ \E o \in OptionSets : CallStartRecording(o)
    \/ CallStopRecording
    \/ Cleanup
    \/ \E c \in Slots, ok \in BOOLEAN : InitializeDone(c, ok)
    \/ \E c \in Slots : VoiceStarted(c)
    \/ \E c \in Slots : RecordStopped(c)
    \/ \E l \in BOOLEAN : Frame(l)

SpecRecCalls == Init /\ [][NextRecCalls]_vars

----------------------------------------------------------------------------
(* The speech recognizer (Voice) during a capture                           *)
(* initialize() registers onSpeechStart, onSpeechEnd, onSpeechResults and   *)
(* onSpeechError; no handler is registered for onSpeechPartialResults.      *)

Hypotheses == {"hello", "hello world"}

\* the recognizer can report while a capture with recognition is running
Recognizing == au.isRecording /\ au.recordOptions.useVoiceRecognition

\* what stopRecording returns as transcription
transcription(a) == a.lastTranscription

\* the best hypothesis of the capture: the final one, else the last partial one
BestTranscript(r) == IF r.final # "" THEN r.final ELSE r.partial

\* onSpeechStart -> handleSpeechStart; the recognizer reports it first
SpeechStart ==
    /\ Recognizing
    /\ rec.partial = "" /\ rec.final = ""
    /\ au' = [au EXCEPT !.lastTranscription = ""]
    /\ lastOp' = "other"
    /\ UNCHANGED <<rec, calls, bt, audioModule, logVars>>
    /\ UNCHANGED <<netVars, msgVars, playVars, hsVars, listenTimer, forceCloses>>

\* a partial hypothesis: Voice has no onSpeechPartialResults handler to call
SpeechPartialResults(t) ==
    /\ Recognizing
    /\ rec.final = ""
    /\ rec' = [rec EXCEPT !.partial = t]
    /\ lastOp' = "other"
    /\ UNCHANGED <<au, calls, bt, audioModule, logVars>>
    /\ UNCHANGED <<netVars, msgVars, playVars, hsVars, listenTimer, forceCloses>>

\* the final hypothesis: onSpeechResults -> handleSpeechResults
SpeechResults(t) ==
    /\ Recognizing
    /\ rec.final = ""
    /\ au' = [au EXCEPT !.lastTranscription = t]
    /\ rec' = [rec EXCEPT !.final = t]
    /\ lastOp' = "other"
    /\ UNCHANGED <<calls, bt, audioModule, logVars>>
    /\ UNCHANGED <<netVars, msgVars, playVars, hsVars, listenTimer, forceCloses>>

NextVoice ==
    \/ \E o \in OptionSets : CallStartRecording(o)
    \/ CallStopRecording
    \/ \E c \in Slots, ok \in BOOLEAN : InitializeDone(c, ok)
    \/ \E c \in Slots : VoiceStarted(c)
    \/ \E c \in Slots : RecordStopped(c)
    \/ SpeechStart
    \/ \E t \in Hypotheses : SpeechPartialResults(t)
    \/ \E t \in Hypotheses : SpeechResults(t)

SpecVoice == Init /\ [][NextVoice]_vars

----------------------------------------------------------------------------
(* AudioService: playback.  Call c of playAudio creates Sound c; sounds[k]  *)
(* is the state of the native player and the call whose play callback it   *)
(* holds.                                                                  *)

Plays == 1..MaxPlays

\* reject(...) or resolve() of the promise of call c
settle(pcs, c) == [pcs EXCEPT ![c] = [pc |-> "done", settles |-> Min(pcs[c].settles + 1, 2)]]

\* Sound.release()
release(snd) ==
    IF snd.state \in {"loaded", "playing"} THEN [state |-> "released", onEnd |-> 0] ELSE snd

\* playAudio(base64Audio) up to await RNFS.writeFile(...)
PlayAudio(c) ==
    /\ UNCHANGED <<bt, audioModule, logVars>>
    /\ playCalls[c].pc = "idle"
    /\ \A d \in Plays : d < c => playCalls[d].pc # "idle"
    /\ sounds' = IF au.currentSound = 0 THEN sounds
                 ELSE [sounds EXCEPT ![au.currentSound] = stopAndRelease(@)]
    /\ playCalls' = [playCalls EXCEPT ![c].pc = "write"]
    /\ lastOp' = "other"
    /\ UNCHANGED <<au, rec, calls>>
    /\ UNCHANGED <<netVars, msgVars, hsVars, listenTimer, forceCloses>>

\* RNFS.writeFile resolves: new Sound(filePath, '', callback) becomes currentSound;
\* or it rejects and so does the call
WriteDone(c, ok) ==
    /\ UNCHANGED <<bt, audioModule, logVars>>
    /\ playCalls[c].pc = "write"
    /\ IF ok
       THEN /\ sounds' = [sounds EXCEPT ![c] = [state |-> "loading", onEnd |-> 0]]
            /\ au' = [au EXCEPT !.currentSound = c]
            /\ playCalls' = [playCalls EXCEPT ![c].pc = "load"]
       ELSE /\ playCalls' = settle(playCalls, c)
            /\ UNCHANGED <<au, sounds>>
    /\ lastOp' = "other"
    /\ UNCHANGED <<rec, calls>>
    /\ UNCHANGED <<netVars, msgVars, hsVars, listenTimer, forceCloses>>

\* the load callback of Sound c: on an error reject; otherwise
\* this.currentSound.play(callback of call c) on whatever currentSound is now
LoadDone(c, ok) ==
    /\ UNCHANGED <<bt, audioModule, logVars>>
    /\ playCalls[c].pc = "load"
    /\ sounds[c].state = "loading"
    /\ LET cur == au.currentSound
           loaded == [sounds EXCEPT ![c].state = "loaded"]
       IN  IF ~ok
           THEN /\ sounds' = [sounds EXCEPT ![c].state = "failed"]
                /\ playCalls' = settle(playCalls, c)
                /\ UNCHANGED au
           ELSE IF cur = 0
           THEN \* null.play(...) throws inside the callback
                /\ sounds' = loaded
                /\ playCalls' = [playCalls EXCEPT ![c].pc = "playing"]
                /\ UNCHANGED au
           ELSE IF loaded[cur].state = "loaded"
           THEN /\ sounds' = [loaded EXCEPT ![cur] = [state |-> "playing", onEnd |-> c]]
                /\ playCalls' = [playCalls EXCEPT ![c].pc = "playing"]
                /\ UNCHANGED au
           ELSE IF loaded[cur].state = "playing"
           THEN \* play() of a Sound that is playing returns without keeping the callback
                /\ sounds' = loaded
                /\ playCalls' = [playCalls EXCEPT ![c].pc = "playing"]
                /\ UNCHANGED au
           ELSE \* play() of a Sound that is not loaded calls back with false at once
                /\ sounds' = loaded
                /\ playCalls' = settle(playCalls, c)
                /\ au' = [au EXCEPT !.currentSound = 0]
    /\ lastOp' = "other"
    /\ UNCHANGED <<rec, calls>>
    /\ UNCHANGED <<netVars, msgVars, hsVars, listenTimer, forceCloses>>

\* the player of Sound k ends (completed or failed): the play callback it holds
\* settles its call, then this.currentSound.release(); this.currentSound = null
PlaybackEnd(k, success) ==
    /\ UNCHANGED <<bt, audioModule, logVars>>
    /\ sounds[k].state = "playing"
    /\ playCalls' = settle(playCalls, sounds[k].onEnd)
    /\ LET ended == [sounds EXCEPT ![k] = [state |-> "loaded", onEnd |-> 0]]
       IN  sounds' = IF au.currentSound = 0 THEN ended
                     ELSE [ended EXCEPT ![au.currentSound] = release(@)]
    /\ au' = [au EXCEPT !.currentSound = 0]
    /\ lastOp' = "other"
    /\ UNCHANGED <<rec, calls>>
    /\ UNCHANGED <<netVars, msgVars, hsVars, listenTimer, forceCloses>>

NextPlay ==
    \/ \E c \in Plays : PlayAudio(c)
    \/ \E c \in Plays, ok \in BOOLEAN : WriteDone(c, ok)
    \/ \E c \in Plays, ok \in BOOLEAN : LoadDone(c, ok)
    \/ \E k \in Plays, ok \in BOOLEAN : PlaybackEnd(k, ok)
    \/ Cleanup

SpecPlay == Init /\ [][NextPlay]_vars

----------------------------------------------------------------------------
(* HomeScreen: the record button, the listen button and the auto-listen     *)
(* timer.  A handler sees the state of the render that created it.          *)

\* the options handleStartRecording passes to AudioService.startRecording
HsOptions == [detectSilence |-> TRUE, useVoiceRecognition |-> TRUE]

\* the coordinator is not idle
Busy == isRecording \/ isProcessingAudio \/ isSpeaking

\* handleStopRecording calls in flight that will hand a clip to sendAudioToServer
ClipsInFlight == Cardinality({c \in Slots : calls[c].op = "stop" /\ calls[c].by = "ui"})

\* handleStartRecording of a render that saw the flags in seen
handleStartRecording(seen) ==
    IF seen.isRecording \/ seen.isProcessingAudio \/ seen.isSpeaking
    THEN UNCHANGED <<au, rec, calls, isRecording, busyStart>>
    ELSE /\ isRecording' = TRUE
         /\ SetSvc(startRecording(Svc, HsOptions, "ui", seen.isRecording))
         /\ busyStart' = (busyStart \/ Busy)

Now == [isRecording |-> isRecording, isProcessingAudio |-> isProcessingAudio,
        isSpeaking |-> isSpeaking]

\* the record button: onPress = isRecording ? handleStopRecording : handleStartRecording,
\* disabled while isProcessingAudio || isSpeaking
PressRecord ==
    /\ UNCHANGED <<bt, audioModule, logVars>>
    /\ ~isProcessingAudio /\ ~isSpeaking
    /\ HasFree(calls)
    /\ IF isRecording
       THEN /\ nextMsg + ClipsInFlight <= MaxClips
            /\ isRecording' = FALSE
            /\ SetSvc(handleStopRecording(Svc, isRecording, wsConnected))
            /\ UNCHANGED busyStart
       ELSE handleStartRecording(Now)
    /\ lastOp' = "other"
    /\ UNCHANGED <<isListening, autoListen, listenTimer>>
    /\ UNCHANGED <<netVars, msgVars, playVars, forceCloses>>

\* the listen button
toggleListening ==
    /\ UNCHANGED <<bt, audioModule, logVars>>
    /\ HasFree(calls)
    /\ isListening' = ~isListening
    /\ IF ~isListening /\ ~Busy
       THEN handleStartRecording(Now)
       ELSE UNCHANGED <<au, rec, calls, isRecording, busyStart>>
    /\ lastOp' = "other"
    /\ UNCHANGED autoListen
    /\ UNCHANGED <<netVars, msgVars, playVars, forceCloses>>
    /\ AutoListenEffect

\* the auto-listen timer: handleStartRecording of the render that armed it
AutoListenFire ==
    /\ UNCHANGED <<bt, audioModule, logVars>>
    /\ listenTimer.left = 0
    /\ HasFree(calls)
    /\ handleStartRecording(listenTimer.seen)
    /\ listenTimer' = [listenTimer EXCEPT !.left = NoTimer]
    /\ lastOp' = "other"
    /\ UNCHANGED <<isListening, autoListen>>
    /\ UNCHANGED <<netVars, msgVars, playVars, forceCloses>>

\* the auto-listen switch of the settings screen
SetAutoListen(b) ==
    /\ UNCHANGED <<bt, audioModule, logVars>>
    /\ autoListen' = b
    /\ lastOp' = "other"
    /\ UNCHANGED <<au, rec, calls, isRecording, isListening, busyStart>>
    /\ UNCHANGED <<netVars, msgVars, playVars, forceCloses>>
    /\ AutoListenEffect

\* the data listener never reads the frame it is given, so for the coordinator
\* one kind of frame stands for all
CoordFrames == {TRUE}

NextCoord ==
    \/ processPendingMessages
    \/ ~DrainDue /\ PressRecord
    \/ ~DrainDue /\ toggleListening
    \/ ~DrainDue /\ AutoListenFire
    \/ ~DrainDue /\ \E b \in BOOLEAN : SetAutoListen(b)
    \/ ~DrainDue /\ \E c \in Slots, ok \in BOOLEAN : InitializeDone(c, ok)
    \/ ~DrainDue /\ \E c \in Slots : VoiceStarted(c)
    \/ ~DrainDue /\ \E c \in Slots : RecordStopped(c)
    \/ ~DrainDue /\ \E l \in CoordFrames : Frame(l)
    \/ ~DrainDue /\ SilenceFire
    \/ ~DrainDue /\ TickUi
    \/ ~DrainDue /\ SpeakTimerFire
    \/ ~DrainDue /\ HandleOpen
    \/ ~DrainDue /\ HandleClose
    \/ ~DrainDue /\ ServerClosing
    \/ ~DrainDue /\ \E k \in MessageKinds : HandleMessage(k)

SpecCoord == Init /\ [][NextCoord]_vars

----------------------------------------------------------------------------
(* BluetoothProvider (BluetoothContext)                                     *)
(* Every function of the provider is a closure of one render: it reads the  *)
(* state of that render (seen), also after an await, and writes the current *)
(* state through the setters. Callers take the functions from the latest    *)
(* render. The native calls made at the mount and BleManager.scan settle    *)
(* before the clock advances; AsyncStorage.setItem succeeds.                *)

BtCall(op, pc, id, seen) == [op |-> op, pc |-> pc, id |-> id, seen |-> seen]

BtFree(b) == Cardinality(b.calls) < MaxBtCalls

Known(seen, id) == id \in Range(seen.discoveredDevices \o seen.previousDevices)

saveDeviceToHistory(b, seen, device) ==
    LET updatedDevices == Without(seen.previousDevices, device)
        newDevicesList == Take(<<device>> \o updatedDevices, HistoryLimit)
    IN  [b EXCEPT !.previousDevices = newDevicesList, !.stored = newDevicesList]

(* stopScan up to its await *)
stopScan(b, seen, op, id) ==
    IF ~seen.isScanning THEN b
    ELSE [b EXCEPT !.calls = @ \cup {BtCall(op, "stopScan", id, seen)}]

(* stopScan after BleManager.stopScan() has settled *)
stopScanDone(b, seen, ok) ==
    IF ok
    THEN [b EXCEPT !.isScanning = FALSE, !.scanAge = 0,
                   !.connectionState = IF seen.connectedDevice # NoDevice
                                       THEN "connected" ELSE "disconnected"]
    ELSE [b EXCEPT !.isScanning = FALSE, !.scanAge = 0,
                   !.error = "Failed to stop scanning"]

(* connectToDevice from the lookup of the device to the await of            *)
(* BleManager.connect; the catch handles 'Device not found'                 *)
findAndConnect(b, seen, id) ==
    IF ~Known(seen, id)
    THEN [b EXCEPT !.error = "Failed to connect to device: Device not found",
                   !.connectionState = "error", !.lastOp = "deviceNotFound"]
    ELSE [b EXCEPT !.calls = @ \cup {BtCall("connectToDevice", "connect", id, seen)},
                   !.connectWhileScanning = @ \/ b.isScanning]

(* connectToDevice up to its first await *)
connectToDevice_noStop(b, seen, id) ==
    IF ~seen.isBluetoothEnabled \/ ~seen.isInitialized
    THEN [b EXCEPT !.lastOp = "notAvailable"]
    ELSE findAndConnect([b EXCEPT !.connectionState = "connecting", !.error = NoError],
                        seen, id)

connectToDevice(b, seen, id) ==
    IF ~seen.isBluetoothEnabled \/ ~seen.isInitialized
    THEN [b EXCEPT !.lastOp = "notAvailable"]
    ELSE LET b1 == [b EXCEPT !.connectionState = "connecting", !.error = NoError]
         IN  IF seen.isScanning
             THEN stopScan(b1, seen, "connectToDevice", id)
             ELSE findAndConnect(b1, seen, id)

(* startScan up to its await of BleManager.scan *)
startScan(b, seen) ==
    IF ~seen.isBluetoothEnabled \/ ~seen.isInitialized
    THEN [b EXCEPT !.error = "Bluetooth is not available"]
    ELSE IF seen.isScanning THEN b
    ELSE [b EXCEPT !.discoveredDevices = <<>>, !.error = NoError,
                   !.isScanning = TRUE, !.connectionState = "scanning",
                   !.scanAge = 0, !.scans = @ + 1,
                   !.calls = @ \cup {BtCall("startScan", "scan", NoDevice, seen)}]

Settled(b, c) == [b EXCEPT !.calls = @ \ {c}, !.lastOp = "other"]

(* initializeBluetooth settles: permissions denied, a native call failed,   *)
(* or BleManager.checkState() answered 'off' / 'on'.                        *)
BluetoothInitialized(r) ==
    /\ "initializeBluetooth" \in bt.booting
    /\ LET b == [bt EXCEPT !.booting = @ \ {"initializeBluetooth"}, !.lastOp = "other"]
       IN  bt' = CASE r = "denied" ->
                        [b EXCEPT !.error = "Bluetooth permissions not granted",
                                  !.connectionState = "error"]
                   [] r = "failed" ->
                        [b EXCEPT !.error = "Failed to initialize Bluetooth",
                                  !.connectionState = "error"]
                   [] OTHER ->
                        [b EXCEPT !.isBluetoothEnabled = (r = "on"),
                                  !.isInitialized = TRUE]
    /\ UNCHANGED appVars

(* loadPreviousDevices settles; its closure is the render of the mount.     *)
HistoryLoaded(ok) ==
    /\ "loadPreviousDevices" \in bt.booting
    /\ LET b == [bt EXCEPT !.booting = @ \ {"loadPreviousDevices"}, !.lastOp = "other"]
           parsedDevices == bt.stored
           seen == MountRender
       IN  bt' = IF ~ok \/ parsedDevices = <<>> THEN b
                 ELSE LET b1 == [b EXCEPT !.previousDevices = parsedDevices]
                      IN  IF seen.isBluetoothEnabled /\ seen.isInitialized
                          THEN connectToDevice(
                                   [b1 EXCEPT !.autoConnect = Head(parsedDevices)],
                                   seen, Head(parsedDevices))
                          ELSE b1
    /\ UNCHANGED appVars

StartScan ==
    /\ bt.scans < MaxScans
    /\ BtFree(bt)
    /\ bt' = startScan([bt EXCEPT !.lastOp = "other"], Render(bt))
    /\ UNCHANGED appVars

(* BleManager.scan settles; on success startScan sets its two timeouts.     *)
ScanStarted(c, ok) ==
    /\ c.pc = "scan"
    /\ bt' = IF ok
             THEN [Settled(bt, c) EXCEPT
                      !.timers = @ \cup
                          {[kind |-> "results", left |-> ScanResultsDelay, seen |-> c.seen],
                           [kind |-> "timeout", left |-> ScanTimeout, seen |-> c.seen]}]
             ELSE [Settled(bt, c) EXCEPT
                      !.error = "Failed to scan for devices", !.isScanning = FALSE,
                      !.scanAge = 0,
                      !.connectionState = "error"]
    /\ UNCHANGED appVars

(* the 3000 ms timeout: the simulated results, then stopScan()              *)
ScanResultsFire(t) ==
    /\ t.kind = "results"
    /\ t.left = 0
    /\ t.seen.isScanning => BtFree(bt)
    /\ bt' = stopScan([bt EXCEPT !.timers = @ \ {t}, !.lastOp = "other",
                                 !.discoveredDevices = exampleDevices],
                      t.seen, "stopScan", NoDevice)
    /\ UNCHANGED appVars

(* the BLE_SCAN_TIMEOUT timeout: if (isScanning) stopScan()                 *)
ScanTimeoutFire(t) ==
    /\ t.kind = "timeout"
    /\ t.left = 0
    /\ t.seen.isScanning => BtFree(bt)
    /\ LET b == [bt EXCEPT !.timers = @ \ {t}, !.lastOp = "other"]
       IN  bt' = IF t.seen.isScanning THEN stopScan(b, t.seen, "stopScan", NoDevice)
                 ELSE b
    /\ UNCHANGED appVars

(* stopScan() called through the context while a scan is shown *)
StopScan ==
    /\ bt.isScanning
    /\ BtFree(bt)
    /\ bt' = stopScan([bt EXCEPT !.lastOp = "other"], Render(bt), "stopScan", NoDevice)
    /\ UNCHANGED appVars

(* BleManager.stopScan settles, for stopScan() itself or for the            *)
(* connectToDevice that awaits it.                                          *)
StopScanDone(c, ok) ==
    /\ c.pc = "stopScan"
    /\ LET b == stopScanDone(Settled(bt, c), c.seen, ok)
       IN  bt' = IF c.op = "connectToDevice"
                 THEN findAndConnect(
                          [b EXCEPT !.stoppedFirst = @ \/ Known(c.seen, c.id)],
                          c.seen, c.id)
                 ELSE b
    /\ UNCHANGED appVars

Targets == {1, 4, Stranger}

ConnectToDevice(id) ==
    /\ bt.connects < MaxConnects
    /\ BtFree(bt)
    /\ bt' = connectToDevice([bt EXCEPT !.lastOp = "other", !.connects = @ + 1],
                             Render(bt), id)
    /\ UNCHANGED appVars

(* BleManager.connect and retrieveServices settle *)
ConnectDone(c, ok) ==
    /\ c.pc = "connect"
    /\ bt' = IF ok
             THEN saveDeviceToHistory(
                      [Settled(bt, c) EXCEPT
                          !.connectedDevice = c.id, !.connectionState = "connected",
                          !.recent = <<c.id>> \o Without(@, c.id),
                          !.connected = TRUE, !.lastOp = "connected"],
                      c.seen, c.id)
             ELSE [Settled(bt, c) EXCEPT
                      !.error = "Failed to connect to device",
                      !.connectionState = "error"]
    /\ UNCHANGED appVars

(* disconnectFromDevice(deviceId) up to its await; it returns at once when   *)
(* deviceId is null or is not the connectedDevice of the caller's render     *)
disconnectFromDevice_whicheverId(b, seen, id) ==
    [b EXCEPT !.lastOp = IF id = NoDevice \/ seen.connectedDevice = NoDevice
                            \/ seen.connectedDevice # id
                         THEN "notConnectedTo" ELSE "other",
              !.calls = @ \cup {BtCall("disconnectFromDevice", "disconnect", id, seen)}]

disconnectFromDevice(b, seen, id) ==
    IF id = NoDevice \/ seen.connectedDevice = NoDevice \/ seen.connectedDevice # id
    THEN [b EXCEPT !.lastOp = "notConnectedTo"]
    ELSE [b EXCEPT !.lastOp = "other",
                   !.calls = @ \cup {BtCall("disconnectFromDevice", "disconnect",
                                            id, seen)}]

DisconnectFromDevice(id) ==
    /\ BtFree(bt)
    /\ bt' = disconnectFromDevice(bt, Render(bt), id)
    /\ UNCHANGED appVars

DisconnectDone(c, ok) ==
    /\ c.pc = "disconnect"
    /\ bt' = [Settled(bt, c) EXCEPT
                 !.connectedDevice = NoDevice, !.connectionState = "disconnected",
                 !.error = IF ok THEN @ ELSE "Failed to disconnect from device"]
    /\ UNCHANGED appVars

BtTimerDue == \E t \in bt.timers : t.left = 0

(* Time passes until the next scan timeout is due (one unit if none is set) *)
Leap(b) ==
    IF b.timers = {} THEN 1
    ELSE CHOOSE n \in {t.left : t \in b.timers} : \A t \in b.timers : n <= t.left

TickBt ==
    /\ bt.booting = {}
    /\ \A c \in bt.calls : c.pc # "scan"
    /\ ~BtTimerDue
    /\ bt.timers # {} \/ (bt.isScanning /\ bt.scanAge <= ScanTimeout)
    /\ bt' = [bt EXCEPT
                 !.timers = {[t EXCEPT !.left = @ - Leap(bt)] : t \in bt.timers},
                 !.scanAge = IF ~bt.isScanning THEN @
                             ELSE IF @ + Leap(bt) > ScanTimeout THEN ScanTimeout + 1
                             ELSE @ + Leap(bt),
                 !.lastOp = "other"]
    /\ UNCHANGED appVars

BtResults == {"denied", "failed", "off", "on"}

ScanSettles(ok) == \E c \in bt.calls : ScanStarted(c, ok)
StopScanSettles(ok) == \E c \in bt.calls : StopScanDone(c, ok)
ConnectSettles(ok) == \E c \in bt.calls : ConnectDone(c, ok)
DisconnectSettles(ok) == \E c \in bt.calls : DisconnectDone(c, ok)
ScanResultsTimeout == \E t \in bt.timers : ScanResultsFire(t)
ScanAutoStopTimeout == \E t \in bt.timers : ScanTimeoutFire(t)

NextBt ==
    \/ \E r \in BtResults : BluetoothInitialized(r)
    \/ \E ok \in BOOLEAN : HistoryLoaded(ok)
    \/ StartScan
    \/ \E ok \in BOOLEAN : ScanSettles(ok)
    \/ ScanResultsTimeout
    \/ ScanAutoStopTimeout
    \/ StopScan
    \/ \E ok \in BOOLEAN : StopScanSettles(ok)
    \/ \E id \in Targets : ConnectToDevice(id)
    \/ \E ok \in BOOLEAN : ConnectSettles(ok)
    \/ \E id \in Targets \cup {NoDevice} : DisconnectFromDevice(id)
    \/ \E ok \in BOOLEAN : DisconnectSettles(ok)
    \/ TickBt

InitBt ==
    /\ InitApp
    /\ ws.url = "ws://a"
    /\ bt \in {BtMounted(h) : h \in StoredHistories}
    /\ InitLog(FALSE)

SpecBt == InitBt /\ [][NextBt]_vars

(* The provider without the passage of time: scans, connects and their     *)
(* radio calls in every order.                                             *)
NextBtRadio ==
    \/ \E r \in BtResults : BluetoothInitialized(r)
    \/ \E ok \in BOOLEAN : HistoryLoaded(ok)
    \/ StartScan
    \/ \E ok \in BOOLEAN : ScanSettles(ok)
    \/ StopScan
    \/ \E ok \in BOOLEAN : StopScanSettles(ok)
    \/ \E id \in Targets : ConnectToDevice(id)
    \/ \E ok \in BOOLEAN : ConnectSettles(ok)

SpecBtRadio == InitBt /\ [][NextBtRadio]_vars

(* Connecting and disconnecting, for any device id, while no scan runs *)
NextBtLink ==
    \/ \E r \in BtResults : BluetoothInitialized(r)
    \/ \E ok \in BOOLEAN : HistoryLoaded(ok)
    \/ \E id \in Targets : ConnectToDevice(id)
    \/ \E ok \in BOOLEAN : ConnectSettles(ok)
    \/ \E id \in Targets \cup {NoDevice} : DisconnectFromDevice(id)
    \/ \E ok \in BOOLEAN : DisconnectSettles(ok)

SpecBtLink == InitBt /\ [][NextBtLink]_vars


----------------------------------------------------------------------------
(* AppContext with its conversation log *)

\* clearConversation: setMessages([])
clearConversation_dropsQueue ==
    /\ mounted
    /\ SetMessages(<<>>)
    /\ pendingMessages' = <<>>
    /\ lastOp' = "other"
    /\ UNCHANGED <<netVars, nextMsg, outcome, wire, dequeued, forceCloses>>
    /\ UNCHANGED <<deviceVars, listenTimer, bt, audioModule, now, logged, received>>

clearConversation ==
    /\ mounted
    /\ SetMessages(<<>>)
    /\ lastOp' = "other"
    /\ UNCHANGED <<netVars, msgVars, forceCloses>>
    /\ UNCHANGED <<deviceVars, listenTimer, bt, audioModule, now, logged, received>>

\* a millisecond passes: Date.now() returns the next value
Millisecond ==
    /\ logged
    /\ now < MaxNow
    /\ now' = now + 1
    /\ lastOp' = "other"
    /\ UNCHANGED <<netVars, msgVars, forceCloses>>
    /\ UNCHANGED <<deviceVars, listenTimer, bt, audioModule, messages, logged, received>>

\* the log has room for k more messages
LogRoom(k) == Len(messages) + k <= MaxLog

\* one session and its conversation of captures: no reconnect after the close
NextChat ==
    \/ LogRoom(1) /\ processPendingMessages
    \/ ~DrainDue /\ LogRoom(2) /\ sendAudioToServer
    \/ ~DrainDue /\ LogRoom(1) /\ HandleOpen
    \/ ~DrainDue /\ LogRoom(2) /\ HandleClose
    \/ ~DrainDue /\ LogRoom(1) /\ \E d \in Inbound : Receive(d)
    \/ ~DrainDue /\ clearConversation
    \/ ~DrainDue /\ Millisecond

InitChat == InitApp /\ ws.url = "ws://a" /\ bt = BtMounted(<<>>) /\ InitLog(TRUE)

SpecChat == InitChat /\ [][NextChat]_vars

----------------------------------------------------------------------------
(* AudioModule (Kotlin): recording to a file, the WAV clip, playback through *)
(* an AudioTrack                                                             *)

\* startRecording: a new temporary file, AudioRecord started, the recording
\* thread submitted
ModuleStartRecording ==
    /\ ~audioModule.isRecording
    /\ audioModule' = [audioModule EXCEPT !.isRecording = TRUE,
                                          !.recordingFile = <<>>, !.mic = <<>>]
    /\ UNCHANGED <<appVarsButModule, bt>>

\* writeAudioDataToFile: one turn of the loop of the recording thread
WriteAudioDataToFile(sample) ==
    /\ audioModule.isRecording
    /\ Len(audioModule.mic) < MaxSamples
    /\ audioModule' = [audioModule EXCEPT !.mic = Append(@, sample),
                                          !.recordingFile = @ \o PcmBytes(<<sample>>)]
    /\ UNCHANGED <<appVarsButModule, bt>>

\* stopRecording.  The recording thread is not joined: what it reads while
\* isRecording is cleared (inFlight) reaches the file before or after
\* convertPcmToWavBase64 reads it (late).
ModuleStopRecording(inFlight, late) ==
    /\ audioModule.isRecording
    /\ Len(audioModule.mic) + Len(inFlight) <= MaxSamples
    /\ LET file == audioModule.recordingFile \o PcmBytes(inFlight)
           pcmData == IF late THEN audioModule.recordingFile ELSE file
       IN  audioModule' =
               [audioModule EXCEPT
                   !.isRecording = FALSE,
                   !.recordingFile = file,
                   !.mic = @ \o inFlight,
                   !.result = [audioBase64 |-> convertPcmToWavBase64(pcmData),
                               captured |-> audioModule.mic \o inFlight]]
    /\ UNCHANGED <<appVarsButModule, bt>>

\* playAudio(base64Audio) with the clip of the last recording: the decoded
\* bytes are written to a static AudioTrack of SAMPLE_RATE, 16 bit, mono
playAudio(m, base64Audio, initialized) ==
    LET audioData == Base64Decode(base64Audio)
    IN  IF m.isPlaying THEN m
        ELSE IF ~initialized
        THEN [m EXCEPT !.audioTrack = [NoTrack EXCEPT !.state = "uninitialized"]]
        ELSE [m EXCEPT !.audioTrack = [sampleRateInHz |-> SAMPLE_RATE,
                                       frames |-> Frames(audioData),
                                       state |-> "playing"],
                       !.isPlaying = TRUE,
                       !.monitor = "watching",
                       !.events = <<>>]

\* playAudio is called when the playback thread of the previous clip has ended
ModulePlayAudio(initialized) ==
    /\ audioModule.result # NoResult
    /\ ~audioModule.isPlaying
    /\ audioModule.monitor = "none"
    /\ audioModule' = playAudio(audioModule, audioModule.result.audioBase64, initialized)
    /\ UNCHANGED <<appVarsButModule, bt>>

\* the playback is over: isPlaying is cleared, the track is released and event
\* is sent to JavaScript (stopPlayback and the monitor thread do the same)
stopPlayback(m, event) ==
    [m EXCEPT !.isPlaying = FALSE, !.audioTrack = NoTrack,
              !.rendered = IF m.audioTrack = NoTrack THEN @ ELSE Len(m.audioTrack.frames),
              !.events = Append(@, event)]

\* stopPlayback on the module's thread: rejected with NOT_PLAYING unless isPlaying
ModuleStopPlayback ==
    /\ audioModule.isPlaying
    /\ audioModule' = stopPlayback(audioModule, "onPlaybackStopped")
    /\ UNCHANGED <<appVarsButModule, bt>>

\* monitorPlaybackCompletion leaves its loop (the track has played out or
\* isPlaying is cleared) and reads isPlaying for "if (isPlaying)"
MonitorLeavesLoop ==
    /\ audioModule.monitor = "watching"
    /\ audioModule' = [audioModule EXCEPT
                           !.monitor = IF audioModule.isPlaying THEN "completing" ELSE "none"]
    /\ UNCHANGED <<appVarsButModule, bt>>

\* the body of "if (isPlaying)": isPlaying = false, release, onPlaybackComplete
MonitorCompletes ==
    /\ audioModule.monitor = "completing"
    /\ audioModule' = [stopPlayback(audioModule, "onPlaybackComplete") EXCEPT
                           !.monitor = "none"]
    /\ UNCHANGED <<appVarsButModule, bt>>

InFlight == {<<>>} \cup {<<x>> : x \in Samples}

NextModule ==
    \/ ModuleStartRecording
    \/ \E x \in Samples : WriteAudioDataToFile(x)
    \/ \E f \in InFlight, late \in BOOLEAN : ModuleStopRecording(f, late)
    \/ \E ok \in BOOLEAN : ModulePlayAudio(ok)
    \/ ModuleStopPlayback
    \/ MonitorLeavesLoop
    \/ MonitorCompletes

SpecModule == Init /\ [][NextModule]_vars

----------------------------------------------------------------------------
(* Properties of the session *)

\* C3: every entry into Open calls onConnect once and every exit from Open
\* calls onDisconnect once, so the observer's flag (set by the two callbacks)
\* always agrees with the session being Open.
C3_NotificationPerTransition == mounted => (wsConnected = ws.connected)

\* C4: while the provider is mounted (no explicit disconnect), the session is
\* never at rest outside Open, Connecting and a pending reconnect timer, and
\* every close or failed attempt is followed by a new connection attempt.
C4_NeverAtRest ==
    mounted => (ws.connected \/ ws.connecting \/ ws.reconnectTimeout # NoTimer)

C4_Reconnects ==
    /\ []C4_NeverAtRest
    /\ (mounted /\ lastOp \in {"close", "fail"})
           ~> (~mounted \/ ws.connecting \/ lastOp \in {"reconnect", "urlChange"})

C4_Witness == ws.connecting /\ lastOp = "reconnect" /\ mounted

\* C5: in one epoch the keepalive force-closes at most once, and a session
\* that stays Open without a pong is force-closed: it is never Open with the
\* last pong (or the open) further back than the first ping tick after
\* DeadAfter.
C5_ForceCloseOnce ==
    /\ forceCloses <= 1
    /\ isConnected(ws) => ws.lastPingTime <= DeadAfter + PingPeriod

C5_Witness == forceCloses = 1 /\ lastOp = "forceClose" /\ ws.connecting

----------------------------------------------------------------------------
(* Properties of the outbound messages *)

\* C1: every message created by sendAudioToServer or sendTextToServer was
\* either accepted by the transport or appended to pendingMessages.
C1_SentOrQueued == \A n \in 1..MaxMsgs : outcome[n] # "dropped"

\* C2: the queue is drained in enqueue order, one head entry per invocation
\* of processPendingMessages: the entries dequeued so far followed by those
\* still pending are the queued messages in the order they were created,
\* queued messages reach the socket in that order, and a step that shortens
\* the queue removes exactly its head and sends at most that entry.
Ids(q) == [i \in 1..Len(q) |-> q[i].messageId]
Increasing(q) == \A i, j \in 1..Len(q) : i < j => q[i] < q[j]
WasQueued(m) == outcome[m.messageId] = "queued"

C2_QueueInOrder ==
    /\ Increasing(dequeued \o Ids(pendingMessages))
    /\ {n \in 1..MaxMsgs : outcome[n] = "queued"}
          = {(dequeued \o Ids(pendingMessages))[i] :
                 i \in 1..(Len(dequeued) + Len(pendingMessages))}
    /\ Increasing(Ids(SelectSeq(wire, WasQueued)))

C2_OnePerDrain ==
    Len(pendingMessages') < Len(pendingMessages) =>
        /\ pendingMessages' = Tail(pendingMessages)
        /\ dequeued' = Append(dequeued, Head(pendingMessages).messageId)
        /\ \/ wire' = wire
           \/ wire' = Append(wire, Payload(Head(pendingMessages).messageId,
                                           Head(pendingMessages).isText))

C15_AnyInboundCounts == lastOp = "forceClose" => ~ws.heard

----------------------------------------------------------------------------
(* Properties of the recording service *)

\* C7: AudioRecord.start() is never called twice without an AudioRecord.stop()
\* between the two calls.
C7_SingleRecording == rec.starts <= 1

\* C8: in a recording started with detectSilence the silence callback fires
\* at most once, and once no loud frame has arrived for longer than the
\* silence timeout it has fired.
C8_SilenceOnce ==
    /\ rec.fired <= 1
    /\ (/\ au.isRecording
        /\ rec.starts > 0
        /\ rec.listener.by # "none"
        /\ au.recordOptions.detectSilence
        /\ rec.quietFor > SilenceDelay) => rec.fired = 1

\* C10: a playAudio call is never settled twice, and a call that has not
\* settled still has something that will settle it: once its Sound was told to
\* play, a playing Sound holds its callback.
C10_SettlesOnce ==
    \A c \in Plays :
        /\ playCalls[c].settles <= 1
        /\ playCalls[c].pc = "playing" =>
               \E k \in Plays : sounds[k].state = "playing" /\ sounds[k].onEnd = c

\* C11: at most one Sound is playing at any instant.
C11_OnePlaying == Cardinality({k \in Plays : sounds[k].state = "playing"}) <= 1

----------------------------------------------------------------------------
(* Properties of the coordinator *)

\* C6: HomeScreen never calls AudioService.startRecording while it is
\* recording, speaking or waiting for a response.
C6_StartOnlyWhenIdle == ~busyStart

\* C9: right after the silence callback of a recording started by
\* handleStartRecording has fired, the screen has left Recording and a
\* stopRecording call whose clip goes to sendAudioToServer is under way.
C9_SilenceStops ==
    (lastOp = "silenceDetected" /\ rec.listener.by = "ui") =>
        /\ ~isRecording
        /\ \E c \in Slots : calls[c].op = "stop" /\ calls[c].by = "ui"

\* a clip is handed to sendAudioToServer while the session is not open
FinalizedOffline == nextMsg' = nextMsg + 1 /\ ~isConnected(ws)

C12_Enqueued ==
    FinalizedOffline => pendingMessages' = Append(pendingMessages, Pending(nextMsg, FALSE))

C12_DequeuedSentOnce ==
    \A i \in 1..Len(dequeued) :
        Cardinality({j \in 1..Len(wire) : wire[j].messageId = dequeued[i]}) = 1

\* C12: a clip finalized while the session is not open is appended to
\* pendingMessages, and every entry taken from the queue has been transmitted
\* exactly once.
C12_QueuedThenSentOnce == [][C12_Enqueued]_vars /\ []C12_DequeuedSentOnce

\* what the conversation log shows for user message n: addMessage puts it in
\* the log, the offline branch rewrites it as saved for later, and
\* processPendingMessages never touches it
deliveryNote(n) ==
    CASE outcome[n] = "none" -> "absent"
      [] outcome[n] = "queued" -> "savedForLater"
      [] OTHER -> "shown"

\* C13: an entry taken from the queue that the socket did not accept is marked
\* in the log as a failed delivery.
C13_FailureReported ==
    \A i \in 1..Len(dequeued) :
        (\A j \in 1..Len(wire) : wire[j].messageId # dequeued[i])
            => deliveryNote(dequeued[i]) = "failed"

\* WebSocketService.send was called in this step
SendAttempted ==
    \/ dequeued' # dequeued
    \/ nextMsg' = nextMsg + 1 /\ outcome'[nextMsg] # "queued"

SocketOpen == ws.socket # NoSocket /\ ws.socket.readyState = "OPEN"

C14_SendStep ==
    SendAttempted =>
        /\ ws' = ws
        /\ SocketOpen => Len(wire') = Len(wire) + 1
        /\ ~SocketOpen => wire' = wire

----------------------------------------------------------------------------
(* Properties of BluetoothProvider *)

Unique(h) == \A i, j \in 1..Len(h) : i # j => h[i] # h[j]
Pos(h, d) == CHOOSE i \in 1..Len(h) : h[i] = d

(* h lists devices in the order of their last successful connect, latest    *)
(* first, and starts with the device connected last.                        *)
MostRecentFirst(h) ==
    /\ \A i, j \in 1..Len(h) : i < j => Pos(bt.recent, h[i]) < Pos(bt.recent, h[j])
    /\ bt.connected => h # <<>> /\ h[1] = bt.recent[1]

DeviceHistory(h) == Len(h) <= HistoryLimit /\ Unique(h) /\ MostRecentFirst(h)

\* C16: previousDevices and the stored copy always hold at most ten entries,
\* no id twice, ordered by last successful connect with the latest at index 0.
C16_HistoryBoundedOrdered == DeviceHistory(bt.previousDevices) /\ DeviceHistory(bt.stored)


\* C17: a connectToDevice for a device in neither list, once it has rejected
\* with 'Device not found', leaves connectionState at Disconnected.
C17_NotFoundDisconnected ==
    bt.lastOp = "deviceNotFound" => bt.connectionState = "disconnected"

StopPending == \E c \in bt.calls : c.pc = "stopScan"

\* C18: a scan that nobody stops is over once the scan timeout has passed:
\* isScanning is never still true more than ScanTimeout units after startScan.
C18_ScanAutoStops == (bt.isScanning /\ ~StopPending) => bt.scanAge <= ScanTimeout

\* C20: once the mount has loaded a non-empty history and Bluetooth is
\* available, a connect has been attempted for the front entry.
C20_AutoConnectAtStartup ==
    (/\ bt.booting = {}
     /\ bt.isBluetoothEnabled /\ bt.isInitialized
     /\ bt.connects = 0
     /\ bt.previousDevices # <<>>) => bt.autoConnect = bt.previousDevices[1]


\* C19: BleManager.connect is never invoked while isScanning is true: a
\* connectToDevice called during a scan stops the scan first.
C19_StopsScanBeforeConnect == ~bt.connectWhileScanning

C19_Witness == bt.stoppedFirst /\ \E c \in bt.calls : c.pc = "connect" /\ c.seen.isScanning


----------------------------------------------------------------------------
(* Properties settled after the Bluetooth ones *)

\* C21: when the session is down while a dispatched message still awaits its
\* response, isProcessingAudio is eventually cleared.
C21_ProcessingClears == (isProcessingAudio /\ ~wsConnected) ~> ~isProcessingAudio


MicUnavailableStep == lastOp' = "rejected"

StopReturns ==
    \E c \in Slots : calls[c].op = "stop" /\ calls[c].pc = "recordStop" /\ calls'[c] = NoCall

\* C28: the transcription that stopRecording returns is the final hypothesis
\* of the capture, or else the last partial one, or else the empty string.
C28_BestTranscript == [][StopReturns => transcription(au) = BestTranscript(rec)]_vars


\* a step in which the session is lost without a disconnect() of the application
SessionLost == lastOp' \in {"close", "fail", "forceClose"}

Attempting(s) == s.socket # NoSocket /\ s.socket.readyState = "CONNECTING"

\* C30: no connection attempt is started in the step that loses the session
\* (transport close, connection error, keepalive force-close): the next
\* attempt waits for the reconnect delay.
C30_ReconnectAfterDelay == [][SessionLost => ~Attempting(ws')]_vars



NotConnectedTo == bt'.lastOp = "notConnectedTo"

\* C29: disconnectFromDevice(id) for an id that is not the connected device
\* (or while nothing is connected) changes neither connectedDevice,
\* connectionState, error nor the history, and makes no radio call.
C29_DisconnectOtherIsNoOp ==
    [][NotConnectedTo =>
          /\ bt'.connectedDevice = bt.connectedDevice
          /\ bt'.connectionState = bt.connectionState
          /\ bt'.error = bt.error
          /\ bt'.previousDevices = bt.previousDevices
          /\ bt'.stored = bt.stored
          /\ bt'.calls = bt.calls]_vars

C29_Witness ==
    /\ bt.lastOp = "notConnectedTo"
    /\ bt.connectedDevice # NoDevice
    /\ bt.connectionState = "connected"



\* the step in which playAudio hands the clip to the AudioTrack
ClipPlayed == audioModule.audioTrack.state # "playing"
              /\ audioModule'.audioTrack.state = "playing"

\* C27: the clip that stopRecording produced, played by playAudio, is
\* rendered with the sample rate of the capture and as many samples as were
\* captured.
C27_RoundTrip ==
    [][ClipPlayed =>
          /\ audioModule'.audioTrack.sampleRateInHz = SAMPLE_RATE
          /\ Len(audioModule'.audioTrack.frames) = Len(audioModule.result.captured)]_vars



Last(log) == log[Len(log)]

UserIds(log) == {log[i].id : i \in {j \in DOMAIN log : log[j].isUser}}

\* the payload is an aiResponse that confirms the transcription of a user
\* message of the log
Confirms(d) ==
    aiResponse(d) /\ d.transcription # "" /\ d.messageId \in UserIds(messages)

\* C22: an aiResponse with a transcription and a messageId changes the text
\* of the one user message with that id and nothing else in the log (same
\* length, order and ids, every other message as it was), and the assistant
\* message is appended at the end.
C22_OnlyTheConfirmedText ==
    [][\A d \in Inbound : (received' = d.kind /\ Confirms(d) /\ Receive(d)) =>
          /\ Len(messages') = Len(messages) + 1
          /\ \A i \in DOMAIN messages :
                \/ messages'[i] = messages[i]
                \/ /\ messages[i].isUser /\ messages[i].id = d.messageId
                   /\ messages'[i] = [messages[i] EXCEPT !.text = d.transcription]
          /\ Cardinality({i \in DOMAIN messages : messages[i].id = d.messageId}) = 1
          /\ Last(messages') = Message(now, "reply", FALSE, "normal")]_vars



\* C23: once an aiResponse without audio has been handled, the assistant
\* text is the last message of the log, isSpeaking is false and
\* isProcessingAudio is false.
C23_TextResponseIdle ==
    [][\A d \in Inbound : (received' = d.kind /\ d.kind = "aiResponseText" /\ Receive(d)) =>
          /\ Len(messages') = Len(messages) + 1
          /\ Last(messages') = Message(now, "reply", FALSE, "normal")
          /\ ~isSpeaking'
          /\ ~isProcessingAudio']_vars

C23_Witness ==
    /\ received = "aiResponseText"
    /\ wire # <<>>
    /\ messages # <<>> /\ Last(messages).text = "reply"
    /\ ~isSpeaking /\ ~isProcessingAudio


\* the log is emptied
Cleared == messages # <<>> /\ messages' = <<>>

\* C24: the step that empties the log changes neither the session
\* (wsConnected, the socket), pendingMessages, the settings nor the
\* Bluetooth state.
C24_ClearTouchesOnlyTheLog ==
    [][Cleared => UNCHANGED <<ws, wsConnected, pendingMessages, autoListen, bt>>]_vars

C24_Witness ==
    /\ messages = <<>>
    /\ pendingMessages # <<>>
    /\ ws.socket # NoSocket


\* C25: a payload that is not valid JSON changes neither the log, isSpeaking,
\* isProcessingAudio nor pendingMessages, and leaves the session and its
\* keepalive as they were, so that later messages are received.
C25_MalformedDropped ==
    [][\A d \in Inbound : (received' = d.kind /\ d.kind = "malformed" /\ Receive(d)) =>
          /\ UNCHANGED <<messages, isSpeaking, isProcessingAudio, pendingMessages>>
          /\ UNCHANGED wsConnected
          /\ ws'.socket = ws.socket
          /\ ws'.connected = ws.connected
          /\ ws'.pingInterval = ws.pingInterval
          /\ ws'.reconnectTimeout = ws.reconnectTimeout]_vars

C25_Witness ==
    /\ received = "malformed"
    /\ ws.connected /\ ws.socket.readyState = "OPEN" /\ ws.pingInterval # NoTimer
    /\ isProcessingAudio
    /\ messages # <<>>

----------------------------------------------------------------------------
(* Properties settled last *)

\* C31: an Open session is never older than the keepalive limit (60 000 ms)
\* since it opened or since its last pong: the ping callback that runs at the
\* limit force-closes it.
C31_ForceClosedAtLimit == isConnected(ws) => ws.lastPingTime <= DeadAfter


\* C36: the messages of the conversation log have pairwise distinct ids.
\* the service after disconnect(): no timer is pending, there is no socket whose
\* events it would hear, and the AppState listener of init finds nothing to do
Quiet(s) ==
    /\ s.reconnectTimeout = NoTimer
    /\ s.pingInterval = NoTimer
    /\ s.socket = NoSocket
    /\ ~s.connected
    /\ ~s.connecting
    /\ checkConnection(s) = s

\* C32: from the explicit disconnect() of the provider's cleanup until init() is
\* called again, the service has no pending timer and no socket, and no step is
\* a reconnect, a forced close or a callback into the provider.
C32_QuietAfterDisconnect ==
    [][~mounted =>
          /\ Quiet(ws)
          /\ ~mounted' =>
                /\ Quiet(ws')
                /\ wsConnected' = wsConnected
                /\ lastOp' = "other"]_vars

\* disconnect() was called while a connection attempt was in flight
C32_Witness == ~mounted /\ ws.orphan = "opening"

\* the transport sockets of the service that are open or opening
Live(s) ==
    (IF s.orphan = "opening" THEN 1 ELSE 0)
        + (IF s.socket.readyState \in {"CONNECTING", "OPEN"} THEN 1 ELSE 0)

\* C40: at most one transport socket created by the service is open or opening.
C40_OneSocket == Live(ws) <= 1

C36_DistinctIds ==
    \A i, j \in DOMAIN messages : i # j => messages[i].id # messages[j].id



\* a stopRecording call is suspended at Voice.stop() / AudioRecord.stop()
Stopping == \E c \in Slots : calls[c].pc = "recordStop"

\* C33: while a stopRecording call of the recording is awaiting the recorder, no
\* step fires the silence callback.
C33_NoSilenceWhileStopping == [][Stopping => lastOp' # "silenceDetected"]_vars

\* the only call in flight is the one connectToDevice issued so far, and it
\* was issued mid-scan: it has awaited stopScan and is at BleManager.connect
ConnectingAfterScan ==
    /\ bt.connects = 1
    /\ bt.stoppedFirst
    /\ \E c \in bt.calls : bt.calls = {c} /\ c.op = "connectToDevice"

\* C34: while a connect attempt that was issued mid-scan is in flight,
\* connectionState is Connecting.
C34_ConnectingWhileInFlight == ConnectingAfterScan => bt.connectionState = "connecting"

\* a connect succeeds while another device is connected and the history has room
SecondConnect ==
    /\ bt'.lastOp = "connected"
    /\ bt.connectedDevice # NoDevice
    /\ bt'.connectedDevice # bt.connectedDevice
    /\ Len(bt.previousDevices) < HistoryLimit

\* C35: after successful connects to two different devices in succession, with
\* room in the history, both devices are in the history.
C35_BothInHistory ==
    [][SecondConnect =>
          {bt.connectedDevice, bt'.connectedDevice} \subseteq Range(bt'.previousDevices)]_vars

\* C39: connectionState = Connected implies a connected device, and
\* connectionState = Disconnected implies none.
C39_StateMatchesDevice ==
    /\ bt.connectionState = "connected" => bt.connectedDevice # NoDevice
    /\ bt.connectionState = "disconnected" => bt.connectedDevice = NoDevice

\* the timeout of one audio response expires while that of a later one is pending
FirstOfTwoCompletes ==
    /\ 0 \in speakTimers
    /\ speakTimers' = speakTimers \ {0}
    /\ speakTimers' # {}

\* C37: the completion of an audio response that is not the latest one does not
\* end Speaking.
C37_SpeakingUntilLatestCompletes == [][FirstOfTwoCompletes => isSpeaking']_vars

\* a playback has been started and is over: nothing is playing and the
\* playback thread has ended
PlaybackEnded ==
    ~audioModule.isPlaying /\ audioModule.monitor = "none" /\ audioModule.rendered > 0

\* C38: for each playback at most one terminal event is sent, and exactly one
\* once the playback is over.
C38_OneTerminalEvent ==
    /\ Len(audioModule.events) <= 1
    /\ PlaybackEnded => Len(audioModule.events) = 1

====
